---- MODULE Spec2Model ----
(***************************************************************************)
(* Warehouse-management backend (app/crud.py, app/models.py,               *)
(* app/dependencies.py, app/database.py).                                  *)
(*                                                                         *)
(* The committed database is the variables items, locations, stock_levels  *)
(* and transactions.  Every request runs in a SQLAlchemy session of its    *)
(* own (get_db); a session reads the committed store, keeps its ORM        *)
(* objects and its unflushed / uncommitted rows to itself, and publishes   *)
(* them in one step at db.commit().  The default engine is SQLite, where   *)
(* the first INSERT/UPDATE of a session takes the database write lock and  *)
(* keeps it until commit or rollback (variable writer).                    *)
(*                                                                         *)
(* Quantities are Float columns; the model counts them in halves (0.5),    *)
(* which IEEE doubles add, subtract and compare exactly in the modelled    *)
(* range, so the integers below are the code's float values times two.     *)
(***************************************************************************)
EXTENDS Integers, Sequences, FiniteSets, TLC

\* ---------------------------------------------------------------- bounds
MaxQty == 2
MaxStock == 3
MaxTx == 2
MaxBatch == 2
MaxLineId == 4
MaxFeed == 3

Sessions == {1, 2}
\* the business keys requests name; every key is unique in its table, so they
\* also bound the number of rows and the ids a request can name
Skus == {"A1", "B2"}
LocationNames == {"Hauptlager", "Regal"}
ItemIds == 1..Cardinality(Skus)
LocationIds == 1..Cardinality(LocationNames)
QtyInputs == (0 - MaxQty)..MaxQty

\* models.TransactionType
RECEIPT == "receipt"
SHIPMENT == "shipment"
ADJUSTMENT == "adjustment"
TransactionType == {RECEIPT, SHIPMENT, ADJUSTMENT}

\* schemas.InventoryTransactionCreate (reference and note carry no logic)
InventoryTransactionCreate ==
    [item_id : ItemIds, location_id : LocationIds,
     quantity : QtyInputs, transaction_type : TransactionType]

\* the NULL of a nullable foreign key column
NoId == 0

\* the business keys and the payload values of suppliers and purchase orders
SupplierNames == {"Acme", "ACME", "Bolt"}
OrderNumbers == {"PO-1", "PO-2"}
SupplierIds == 1..Cardinality(SupplierNames)
OrderIds == 1..Cardinality(OrderNumbers)

\* models.Item as create_item stores a schemas.ItemCreate: the caller's name,
\* unit and reorder level (description carries no logic)
ItemCreate(id, sku) ==
    [id |-> id, sku |-> sku, name |-> "Schraube", unit_of_measure |-> "kg",
     reorder_level |-> 5]

\* get_or_create_item_by_sku called without the defaults: the name falls back
\* to the sku
ErpItem_NoDefaults(id, line) ==
    [id |-> id, sku |-> line.sku, name |-> line.sku, unit_of_measure |-> "Stk",
     reorder_level |-> 0]

\* models.Item as get_or_create_item_by_sku builds it from the defaults
\* _replace_purchase_order_lines passes: the line's name, and "Stk" and 0 for
\* the keys the defaults lack
ErpItem(id, line) ==
    [id |-> id, sku |-> line.sku, name |-> line.name, unit_of_measure |-> "Stk",
     reorder_level |-> 0]

\* supplier names with a letter outside ASCII
UmlautNames == {"Müller", "MÜLLER"}

\* func.lower of a supplier name (crud.get_supplier_by_name), which the
\* database computes: SQLite (database.py 11) lowers the letters A-Z and
\* leaves every other character as it is
Lower(name) ==
    CASE name \in {"Acme", "ACME"} -> "acme"
      [] name = "Bolt" -> "bolt"
      [] name = "Müller" -> "müller"
      [] name = "MÜLLER" -> "mÜller"

\* the NULL of a nullable text or date column, and of unit_price
Null == "NULL"
NoPrice == 0 - 1

\* models.PurchaseOrderStatus
DRAFT == "draft"
RELEASED == "released"
COMPLETED == "completed"
CANCELLED == "cancelled"
PurchaseOrderStatus == {DRAFT, RELEASED, COMPLETED, CANCELLED}

\* schemas.ERPPurchaseOrderLine: the lines an ERP feed sends
BoltLine ==
    [sku |-> "A1", name |-> "Bolt", ordered_quantity |-> 10,
     unit_price |-> NoPrice, description |-> Null]
NutLine ==
    [sku |-> "B2", name |-> "Nut", ordered_quantity |-> 4,
     unit_price |-> 2, description |-> "M8"]

\* the line lists a feed sends: one line, or two lines of the same sku
ERPLines == {<<BoltLine>>, <<NutLine, NutLine>>}

\* supplier and header a feed sends: the schema's defaults (status RELEASED,
\* no date, no notes), or every field set and another supplier
ERPHeaders ==
    {[supplier_name |-> "ACME", status |-> RELEASED, expected_date |-> Null, notes |-> Null],
     [supplier_name |-> "Bolt", status |-> COMPLETED, expected_date |-> "2024-05-01",
      notes |-> "eilig"]}

\* schemas.ERPPurchaseOrder
ERPPurchaseOrder ==
    {[order_number |-> n, supplier_name |-> h.supplier_name, status |-> h.status,
      expected_date |-> h.expected_date, notes |-> h.notes, lines |-> ls] :
        n \in OrderNumbers, h \in ERPHeaders, ls \in ERPLines}

\* schemas.PurchaseOrderLineCreate: a free-text line or a line naming an item
PurchaseOrderLineCreate ==
    {[item_id |-> i, description |-> Null, ordered_quantity |-> 5, unit_price |-> NoPrice] :
        i \in {NoId} \cup ItemIds}

\* schemas.PurchaseOrderCreate with the schema's defaults for status,
\* expected_date and notes; lines absent or one line
PurchaseOrderCreate ==
    {[order_number |-> n, supplier_id |-> sid, status |-> DRAFT,
      expected_date |-> Null, notes |-> Null, lines |-> ls] :
        n \in OrderNumbers, sid \in {NoId, 1},
        ls \in {<<>>} \cup {<<l>> : l \in PurchaseOrderLineCreate}}

\* Settings.erp_base_url as the environment may set it, and what
\* ERPClient.__init__ keeps of it: None stays None, trailing slashes go
ErpBaseUrls == {Null, "/", "http://erp/"}
Rstrip(base_url) ==
    CASE base_url = Null -> Null
      [] base_url = "/" -> ""
      [] base_url = "http://erp/" -> "http://erp"
\* "if self.base_url is not None"
Configured_NotNone(base_url) == base_url # Null
\* "if not self.base_url"
Configured(base_url) == base_url \notin {Null, ""}

\* how the exchange inside "async with httpx.AsyncClient" can end: with an
\* exception, or with the parsed JSON body of a reply.  ConnectError,
\* ReadTimeout, HTTPStatusError (raise_for_status) and DecodingError (a body
\* that cannot be decoded) are httpx.HTTPError; a body that is not JSON makes
\* response.json() raise json.JSONDecodeError, and the JSON encoder the
\* request body goes through raises TypeError for a value it cannot encode,
\* which the datetime generated_at of a snapshot is: neither is an HTTPError.
HTTPError == {"ConnectError", "ReadTimeout", "HTTPStatusError", "DecodingError"}
Exceptions == HTTPError \cup {"JSONDecodeError", "TypeError"}
\* the JSON bodies of a reply to the snapshot: an object with all three keys,
\* an object without them, and a value that is not an object
PushReplies ==
    {[dict |-> TRUE, body |-> [transmitted |-> 0, status |-> "partial", message |-> "abgelehnt"]],
     [dict |-> TRUE, body |-> [accepted |-> TRUE]],
     [dict |-> FALSE]}
PushExchanges ==
    {[raise |-> e] : e \in Exceptions} \cup {[data |-> d] : d \in PushReplies}
\* dict.get(key, default)
Get(body, key, default) == IF key \in DOMAIN body THEN body[key] ELSE default

\* how the GET of /purchase-orders/open can end: the request has no body to
\* encode, so the exceptions are those of the transport and of response.json()
FetchExceptions == HTTPError \cup {"JSONDecodeError"}

\* the elements of the parsed JSON the ERP sends.  Two are well-formed: one
\* with the required keys only and a line with the required keys only, one
\* with every key.  Four are not: the required "lines" absent, a status that is
\* no PurchaseOrderStatus, a line without "sku", and a value that is no object.
RawBolt ==
    [dict |-> TRUE,
     body |-> [order_number |-> "PO-2", supplier_name |-> "Bolt",
               lines |-> <<[sku |-> "A1", name |-> "Bolt", ordered_quantity |-> 10]>>]]
RawAcme ==
    [dict |-> TRUE,
     body |-> [order_number |-> "PO-1", supplier_name |-> "ACME", status |-> COMPLETED,
               expected_date |-> "2024-05-01", notes |-> "eilig",
               lines |-> <<[sku |-> "B2", name |-> "Nut", ordered_quantity |-> 4,
                            unit_price |-> 2, description |-> "M8"]>>]]
RawNoLines ==
    [dict |-> TRUE, body |-> [order_number |-> "PO-1", supplier_name |-> "Acme"]]
RawBadStatus ==
    [dict |-> TRUE,
     body |-> [order_number |-> "PO-2", supplier_name |-> "Bolt", status |-> "storniert",
               lines |-> <<[sku |-> "A1", name |-> "Bolt", ordered_quantity |-> 10]>>]]
RawBadLine ==
    [dict |-> TRUE,
     body |-> [order_number |-> "PO-1", supplier_name |-> "Bolt", status |-> RELEASED,
               expected_date |-> Null,
               lines |-> <<[name |-> "Bolt", ordered_quantity |-> 10]>>]]
RawOrders == {RawBolt, RawAcme, RawNoLines, RawBadStatus, RawBadLine, [dict |-> FALSE]}

\* ERPPurchaseOrderLine.model_validate: sku, name and ordered_quantity are
\* required, unit_price and description default to None
LineValid(l) == {"sku", "name", "ordered_quantity"} \subseteq DOMAIN l
ValidateLine(l) ==
    [sku |-> l.sku, name |-> l.name, ordered_quantity |-> l.ordered_quantity,
     unit_price |-> Get(l, "unit_price", NoPrice),
     description |-> Get(l, "description", Null)]
\* ERPPurchaseOrder.model_validate: order_number, supplier_name and lines are
\* required, the status is one of the enum and defaults to RELEASED,
\* expected_date and notes default to None, every line validates
ModelValid(raw) ==
    /\ raw.dict
    /\ {"order_number", "supplier_name", "lines"} \subseteq DOMAIN raw.body
    /\ Get(raw.body, "status", RELEASED) \in PurchaseOrderStatus
    /\ \A i \in 1..Len(raw.body.lines) : LineValid(raw.body.lines[i])
ModelValidate(raw) ==
    [order_number |-> raw.body.order_number, supplier_name |-> raw.body.supplier_name,
     status |-> Get(raw.body, "status", RELEASED),
     expected_date |-> Get(raw.body, "expected_date", Null),
     notes |-> Get(raw.body, "notes", Null),
     lines |-> [i \in 1..Len(raw.body.lines) |-> ValidateLine(raw.body.lines[i])]]

\* the payloads of an import: up to MaxBatch orders
RECURSIVE SeqsUpTo(_, _)
SeqsUpTo(S, n) ==
    IF n = 0 THEN {<<>>}
    ELSE SeqsUpTo(S, n - 1)
             \cup {Append(q, x) : q \in {p \in SeqsUpTo(S, n - 1) : Len(p) = n - 1}, x \in S}
Payloads == SeqsUpTo(ERPPurchaseOrder, MaxBatch) \ {<<>>}
\* what response.json() gives for the feed: an object whose "orders" is a
\* list, an object whose "orders" is no list, an object without "orders", a
\* list, or another JSON value; the lists hold up to MaxFeed elements, no
\* element twice
Feeds ==
    {f \in SeqsUpTo(RawOrders, MaxFeed) : \A i, j \in DOMAIN f : i # j => f[i] # f[j]}
FetchReplies ==
    {[kind |-> "dict", orders |-> f] : f \in Feeds}
        \cup {[kind |-> "list", orders |-> f] : f \in Feeds}
        \cup {[kind |-> "dict_orders_no_list"], [kind |-> "dict_no_orders"], [kind |-> "other"]}
FetchExchanges ==
    {[raise |-> e] : e \in FetchExceptions} \cup {[data |-> d] : d \in FetchReplies}
LineIds == 1..MaxLineId

\* schemas.PurchaseOrderReceiveUpdate.received_quantity as a client may send it
ReceivedInputs == {0 - 1, 3}

None == [none |-> TRUE]

\* messages of the CRUDExceptions and the database errors a call can end with
ErrNotFound == "Artikel oder Lagerort wurde nicht gefunden."
ErrZero == "Die Bewegungsmenge darf nicht 0 sein."
ErrReceipt == "Wareneingang benoetigt eine positive Menge."
ErrShipment == "Warenausgang benoetigt eine positive Menge."
ErrNegative == "Der Bestand darf nicht negativ werden."
ErrSku == "Artikelnummer existiert bereits."
ErrLocation == "Lagerort existiert bereits."
ErrSupplier == "Lieferant existiert bereits."
ErrOrderNumber == "Bestellnummer existiert bereits."
ErrLineItem == "Artikel fuer Bestellposition nicht gefunden."
ErrLine404 == "Bestellposition nicht gefunden"
ErrReceived == "Gelieferte Menge darf nicht negativ sein."
ErrOrder404 == "Bestellung nicht gefunden"
ErrItem404 == "Artikel nicht gefunden"
ErrIntegrity == "IntegrityError"
ErrLocked == "OperationalError: database is locked"

VARIABLES
    items,          \* committed rows of table items: [id, sku, name, unit, reorder level]
    locations,      \* committed rows of table storage_locations: [id, name]
    stock_levels,   \* committed rows of table stock_levels
    transactions,   \* committed rows of table inventory_transactions, by id
    writer,         \* the session holding the database write lock, 0 if none
    pc,             \* where each session's request stands
    req,            \* the InventoryTransactionCreate a session is registering
    stock_level,    \* the session's StockLevel ORM object
    result,         \* how the session's call ended: "none", "ok" or an error
    pre,            \* the committed ledger as it was when the call started
    suppliers,      \* committed rows of table suppliers: [id, name]
    purchase_orders,        \* committed rows of table purchase_orders
    purchase_order_lines,   \* committed rows of table purchase_order_lines
    call,           \* the catalog or purchase-order call a session is running
    imp,            \* the locals of a session's import_purchase_orders_from_payload
    erp,            \* a session's exchange with the ERP: what ERPClient was given,
                    \* what the ERP answered and what the call returned
    view            \* what a session's read-only view (planning, dashboard) computed

vars == <<items, locations, stock_levels, transactions, writer,
          pc, req, stock_level, result, pre,
          suppliers, purchase_orders, purchase_order_lines, call, imp, erp, view>>

catalog == <<items, locations>>
ledger == <<stock_levels, transactions>>
locals == <<req, stock_level, pre>>
orders == <<suppliers, purchase_orders, purchase_order_lines>>

\* the tables of models.py and the shape of each session's locals
TypeOK ==
    /\ items \subseteq [id : ItemIds, sku : Skus, name : {"Schraube", "Bolt", "Nut"},
                         unit_of_measure : {"kg", "Stk"}, reorder_level : {0, 5, 20}]
    /\ locations \subseteq [id : LocationIds, name : LocationNames]
    /\ \A r \in stock_levels :
           /\ DOMAIN r = {"id", "item_id", "location_id", "quantity"}
           /\ r.id \in Nat /\ r.item_id \in ItemIds /\ r.location_id \in LocationIds
           /\ r.quantity \in Int
    /\ \A i \in 1..Len(transactions) :
           /\ transactions[i].id \in Nat \ {0}
           /\ \A j \in 1..Len(transactions) : i < j => transactions[i].id < transactions[j].id
           /\ transactions[i].item_id \in ItemIds
           /\ transactions[i].location_id \in LocationIds
           /\ transactions[i].quantity \in Int
           /\ transactions[i].transaction_type \in TransactionType
    /\ writer \in {0} \cup Sessions
    /\ \A s \in Sessions :
           /\ pc[s] \in {"idle", "ready", "validated", "selected", "loaded",
                         "applied", "done", "failed",
                         "imp_supplier", "imp_supplier_ins", "imp_order", "imp_item",
                         "imp_item_ins", "imp_flush", "imp_commit",
                         "push_await", "fetch_await"}
           /\ req[s] \in InventoryTransactionCreate \cup {None}
           /\ stock_level[s] = None \/ DOMAIN stock_level[s] = {"id", "quantity", "new"}
           /\ pre[s] = None \/ DOMAIN pre[s] = {"stock_levels", "transactions"}
           /\ call[s] = None \/ {"op", "key"} \subseteq DOMAIN call[s]
           /\ view[s] = None \/ "summary" \in DOMAIN view[s] \/ "low_stock" \in DOMAIN view[s]
                  \/ "stock_levels" \in DOMAIN view[s]
           /\ imp[s] = None \/
                  /\ \A i \in 1..Len(imp[s].payload) :
                         imp[s].payload[i].order_number \in OrderNumbers
                  /\ Len(imp[s].seen) = Len(imp[s].outcomes)
                  /\ imp[s].imported \in Nat /\ imp[s].updated \in Nat
                  /\ imp[s].skipped \in Nat /\ imp[s].details \in Nat
    /\ suppliers \subseteq [id : Nat \ {0}, name : SupplierNames \cup UmlautNames]
    /\ purchase_orders \subseteq
           [id : Nat \ {0}, order_number : OrderNumbers,
            supplier_id : {NoId} \cup 1..Cardinality(SupplierNames \cup UmlautNames),
            status : PurchaseOrderStatus,
            expected_date : {Null, "2024-05-01"}, notes : {Null, "eilig"}]
    /\ \A l \in purchase_order_lines :
           /\ DOMAIN l = {"id", "purchase_order_id", "item_id", "description",
                          "ordered_quantity", "unit_price", "received_quantity"}
           /\ l.id \in LineIds
           /\ l.purchase_order_id \in {o.id : o \in purchase_orders}
           /\ l.item_id \in {i.id : i \in items}
           /\ l.received_quantity \in Nat

\* ------------------------------------------------------------- helpers
Max(S) == CHOOSE x \in S : \A y \in S : y <= x

\* autoincrement primary key of a table
NextId(rows) == IF rows = {} THEN 1 ELSE Max({r.id : r \in rows}) + 1

\* the same for a table the model keeps as a sequence ordered by id
NextRowId(rows) == IF rows = <<>> THEN 1 ELSE rows[Len(rows)].id + 1

\* db.get(Item, id) / db.get(StorageLocation, id)
ItemExists(id) == \E i \in items : i.id = id
LocationExists(id) == \E l \in locations : l.id = id

\* crud.get_stock_level: the rows of the pair in the committed store
StockRows(rows, item_id, location_id) ==
    {r \in rows : r.item_id = item_id /\ r.location_id = location_id}

\* get_stock_level filtering on the item alone
get_stock_level_ByItem(item_id, location_id) ==
    IF {r \in stock_levels : r.item_id = item_id} = {} THEN None
    ELSE LET r == CHOOSE r \in {x \in stock_levels : x.item_id = item_id} :
                     \A o \in {x \in stock_levels : x.item_id = item_id} : r.id <= o.id
         IN  [id |-> r.id, quantity |-> r.quantity, new |-> FALSE]

get_stock_level(item_id, location_id) ==
    IF StockRows(stock_levels, item_id, location_id) = {} THEN None
    ELSE LET r == CHOOSE r \in StockRows(stock_levels, item_id, location_id) :
                     \A o \in StockRows(stock_levels, item_id, location_id) : r.id <= o.id
         IN  [id |-> r.id, quantity |-> r.quantity, new |-> FALSE]

\* the quantity a reader of the committed store sees for a pair (0: no row)
StockOf(rows, item_id, location_id) ==
    IF StockRows(rows, item_id, location_id) = {} THEN 0
    ELSE (CHOOSE r \in StockRows(rows, item_id, location_id) : TRUE).quantity

\* ------------------------------------------- register_inventory_transaction
\* ApplyDelta with the SHIPMENT branch missing its "would go negative" check
ApplyDelta_NoFloor(transaction_type, quantity, quantity_delta) ==
    IF transaction_type = RECEIPT THEN
        IF quantity_delta <= 0
        THEN [ok |-> FALSE, error |-> ErrReceipt, quantity |-> quantity]
        ELSE [ok |-> TRUE, error |-> "", quantity |-> quantity + quantity_delta]
    ELSE IF transaction_type = SHIPMENT THEN
        IF quantity_delta <= 0
        THEN [ok |-> FALSE, error |-> ErrShipment, quantity |-> quantity]
        ELSE [ok |-> TRUE, error |-> "", quantity |-> quantity - quantity_delta]
    ELSE
        IF quantity + quantity_delta < 0
        THEN [ok |-> FALSE, error |-> ErrNegative, quantity |-> quantity]
        ELSE [ok |-> TRUE, error |-> "", quantity |-> quantity + quantity_delta]

\* ApplyDelta with the SHIPMENT check written "<= 0": shipping the whole stock fails
ApplyDelta_ShipStrict(transaction_type, quantity, quantity_delta) ==
    IF transaction_type = RECEIPT THEN
        IF quantity_delta <= 0
        THEN [ok |-> FALSE, error |-> ErrReceipt, quantity |-> quantity]
        ELSE [ok |-> TRUE, error |-> "", quantity |-> quantity + quantity_delta]
    ELSE IF transaction_type = SHIPMENT THEN
        IF quantity_delta <= 0
        THEN [ok |-> FALSE, error |-> ErrShipment, quantity |-> quantity]
        ELSE IF quantity - quantity_delta <= 0
        THEN [ok |-> FALSE, error |-> ErrNegative, quantity |-> quantity]
        ELSE [ok |-> TRUE, error |-> "", quantity |-> quantity - quantity_delta]
    ELSE
        IF quantity + quantity_delta < 0
        THEN [ok |-> FALSE, error |-> ErrNegative, quantity |-> quantity]
        ELSE [ok |-> TRUE, error |-> "", quantity |-> quantity + quantity_delta]

\* ApplyDelta with the RECEIPT branch assigning ("=") instead of adding ("+=")
ApplyDelta_ReceiptAssign(transaction_type, quantity, quantity_delta) ==
    IF transaction_type = RECEIPT THEN
        IF quantity_delta <= 0
        THEN [ok |-> FALSE, error |-> ErrReceipt, quantity |-> quantity]
        ELSE [ok |-> TRUE, error |-> "", quantity |-> quantity_delta]
    ELSE IF transaction_type = SHIPMENT THEN
        IF quantity_delta <= 0
        THEN [ok |-> FALSE, error |-> ErrShipment, quantity |-> quantity]
        ELSE IF quantity - quantity_delta < 0
        THEN [ok |-> FALSE, error |-> ErrNegative, quantity |-> quantity]
        ELSE [ok |-> TRUE, error |-> "", quantity |-> quantity - quantity_delta]
    ELSE
        IF quantity + quantity_delta < 0
        THEN [ok |-> FALSE, error |-> ErrNegative, quantity |-> quantity]
        ELSE [ok |-> TRUE, error |-> "", quantity |-> quantity + quantity_delta]

\* ApplyDelta with the ADJUSTMENT check written "<= 0": adjusting down to 0 fails
ApplyDelta_AdjustStrict(transaction_type, quantity, quantity_delta) ==
    IF transaction_type = RECEIPT THEN
        IF quantity_delta <= 0
        THEN [ok |-> FALSE, error |-> ErrReceipt, quantity |-> quantity]
        ELSE [ok |-> TRUE, error |-> "", quantity |-> quantity + quantity_delta]
    ELSE IF transaction_type = SHIPMENT THEN
        IF quantity_delta <= 0
        THEN [ok |-> FALSE, error |-> ErrShipment, quantity |-> quantity]
        ELSE IF quantity - quantity_delta < 0
        THEN [ok |-> FALSE, error |-> ErrNegative, quantity |-> quantity]
        ELSE [ok |-> TRUE, error |-> "", quantity |-> quantity - quantity_delta]
    ELSE
        IF quantity + quantity_delta <= 0
        THEN [ok |-> FALSE, error |-> ErrNegative, quantity |-> quantity]
        ELSE [ok |-> TRUE, error |-> "", quantity |-> quantity + quantity_delta]

\* ApplyDelta with the sign checks of lines 156 and 160 missing
ApplyDelta_NoSign(transaction_type, quantity, quantity_delta) ==
    IF transaction_type = RECEIPT THEN
        [ok |-> TRUE, error |-> "", quantity |-> quantity + quantity_delta]
    ELSE IF transaction_type = SHIPMENT THEN
        IF quantity - quantity_delta < 0
        THEN [ok |-> FALSE, error |-> ErrNegative, quantity |-> quantity]
        ELSE [ok |-> TRUE, error |-> "", quantity |-> quantity - quantity_delta]
    ELSE
        IF quantity + quantity_delta < 0
        THEN [ok |-> FALSE, error |-> ErrNegative, quantity |-> quantity]
        ELSE [ok |-> TRUE, error |-> "", quantity |-> quantity + quantity_delta]

\* crud.py 153-172: the checks and the new quantity of the StockLevel object,
\* from the transaction type, the object's quantity and quantity_delta
ApplyDelta(transaction_type, quantity, quantity_delta) ==
    IF transaction_type = RECEIPT THEN
        IF quantity_delta <= 0
        THEN [ok |-> FALSE, error |-> ErrReceipt, quantity |-> quantity]
        ELSE [ok |-> TRUE, error |-> "", quantity |-> quantity + quantity_delta]
    ELSE IF transaction_type = SHIPMENT THEN
        IF quantity_delta <= 0
        THEN [ok |-> FALSE, error |-> ErrShipment, quantity |-> quantity]
        ELSE IF quantity - quantity_delta < 0
        THEN [ok |-> FALSE, error |-> ErrNegative, quantity |-> quantity]
        ELSE [ok |-> TRUE, error |-> "", quantity |-> quantity - quantity_delta]
    ELSE
        IF quantity + quantity_delta < 0
        THEN [ok |-> FALSE, error |-> ErrNegative, quantity |-> quantity]
        ELSE [ok |-> TRUE, error |-> "", quantity |-> quantity + quantity_delta]

\* crud.py 174-182: the InventoryTransaction row built from the request
NewTransaction(id, transaction_in) ==
    [id |-> id,
     item_id |-> transaction_in.item_id,
     location_id |-> transaction_in.location_id,
     quantity |-> transaction_in.quantity,
     transaction_type |-> transaction_in.transaction_type]

\* LookupError without the zero check of lines 144-145
LookupError_NoZero(transaction_in) ==
    IF ~ItemExists(transaction_in.item_id) \/ ~LocationExists(transaction_in.location_id)
    THEN ErrNotFound
    ELSE ""

\* LookupError testing the item alone ("if not item:")
LookupError_ItemOnly(transaction_in) ==
    IF ~ItemExists(transaction_in.item_id)
    THEN ErrNotFound
    ELSE IF transaction_in.quantity = 0 THEN ErrZero
    ELSE ""

\* crud.py 139-145: the lookups and the zero check; "" when the call goes on
LookupError(transaction_in) ==
    IF ~ItemExists(transaction_in.item_id) \/ ~LocationExists(transaction_in.location_id)
    THEN ErrNotFound
    ELSE IF transaction_in.quantity = 0 THEN ErrZero
    ELSE ""

\* the flush of db.commit(): the session's StockLevel object written to its
\* row (INSERT of the pending row, or UPDATE ... SET quantity WHERE id)
FlushStockLevel(rows, obj, transaction_in) ==
    IF obj.new
    THEN rows \cup {[id |-> obj.id, item_id |-> transaction_in.item_id,
                     location_id |-> transaction_in.location_id,
                     quantity |-> obj.quantity]}
    ELSE {IF r.id = obj.id THEN [r EXCEPT !.quantity = obj.quantity] ELSE r : r \in rows}

\* ----------------------------------------------------------------- Init
Init ==
    /\ items = {}
    /\ locations = {}
    /\ stock_levels = {}
    /\ transactions = <<>>
    /\ writer = 0
    /\ pc = [s \in Sessions |-> "idle"]
    /\ req = [s \in Sessions |-> None]
    /\ stock_level = [s \in Sessions |-> None]
    /\ result = [s \in Sessions |-> "none"]
    /\ pre = [s \in Sessions |-> None]
    /\ suppliers = {}
    /\ purchase_orders = {}
    /\ purchase_order_lines = {}
    /\ call = [s \in Sessions |-> None]
    /\ imp = [s \in Sessions |-> None]
    /\ erp = [s \in Sessions |-> None]
    /\ view = [s \in Sessions |-> None]

\* -------------------------------------------------------------- actions
\* get_db handing out the session without ensure_default_location
GetDb_NoEnsure(s) ==
    /\ pc[s] = "idle"
    /\ pc' = [pc EXCEPT ![s] = "ready"]
    /\ UNCHANGED <<catalog, ledger, writer, locals, result, orders, call, imp, erp, view>>
\* dependencies.get_db: a new session, then ensure_default_location
GetDb(s) ==
    /\ pc[s] = "idle"
    /\ IF locations = {}
       THEN /\ writer = 0
            /\ locations' = {[id |-> 1, name |-> "Hauptlager"]}
       ELSE UNCHANGED locations
    /\ pc' = [pc EXCEPT ![s] = "ready"]
    /\ UNCHANGED <<items, ledger, writer, locals, result, orders, call, imp, erp, view>>

\* crud.create_item
CreateItem(s, sku) ==
    /\ pc[s] = "ready"
    /\ call' = [call EXCEPT ![s] = [op |-> "create_item", key |-> sku]]
    /\ IF \E i \in items : i.sku = sku
       THEN /\ result' = [result EXCEPT ![s] = ErrSku]
            /\ pc' = [pc EXCEPT ![s] = "failed"]
            /\ UNCHANGED items
       ELSE /\ writer = 0
            /\ items' = items \cup {ItemCreate(NextId(items), sku)}
            /\ result' = [result EXCEPT ![s] = "ok"]
            /\ pc' = [pc EXCEPT ![s] = "done"]
    /\ UNCHANGED <<locations, ledger, writer, locals, orders, imp, erp, view>>

\* crud.create_location
CreateLocation(s, name) ==
    /\ pc[s] = "ready"
    /\ call' = [call EXCEPT ![s] = [op |-> "create_location", key |-> name]]
    /\ IF \E l \in locations : l.name = name
       THEN /\ result' = [result EXCEPT ![s] = ErrLocation]
            /\ pc' = [pc EXCEPT ![s] = "failed"]
            /\ UNCHANGED locations
       ELSE /\ writer = 0
            /\ locations' = locations \cup {[id |-> NextId(locations), name |-> name]}
            /\ result' = [result EXCEPT ![s] = "ok"]
            /\ pc' = [pc EXCEPT ![s] = "done"]
    /\ UNCHANGED <<items, ledger, writer, locals, orders, imp, erp, view>>

\* register_inventory_transaction, crud.py 139-145: item and location are
\* looked up and a zero quantity is refused
Lookup(s, transaction_in) ==
    /\ pc[s] = "ready"
    /\ Len(transactions) < MaxTx
    /\ StockOf(stock_levels, transaction_in.item_id, transaction_in.location_id)
           + transaction_in.quantity <= MaxStock
    /\ req' = [req EXCEPT ![s] = transaction_in]
    /\ pre' = [pre EXCEPT ![s] = [stock_levels |-> stock_levels, transactions |-> transactions]]
    /\ IF LookupError(transaction_in) # ""
       THEN /\ result' = [result EXCEPT ![s] = LookupError(transaction_in)]
            /\ pc' = [pc EXCEPT ![s] = "failed"]
       ELSE /\ pc' = [pc EXCEPT ![s] = "validated"]
            /\ UNCHANGED result
    /\ UNCHANGED <<catalog, ledger, writer, stock_level, orders, call, imp, erp, view>>

\* crud.py 147-148: get_stock_level reads the committed row of the pair
SelectStock(s) ==
    /\ pc[s] = "validated"
    /\ stock_level' = [stock_level EXCEPT ![s] = get_stock_level(req[s].item_id, req[s].location_id)]
    /\ pc' = [pc EXCEPT ![s] =
                 IF get_stock_level(req[s].item_id, req[s].location_id) = None
                 THEN "selected" ELSE "loaded"]
    /\ UNCHANGED <<catalog, ledger, writer, req, result, pre, orders, call, imp, erp, view>>

\* Flush on a table without uq_stock_levels_item_location
Flush_NoUnique(s) ==
    /\ pc[s] = "selected"
    /\ writer = 0
    /\ stock_level' = [stock_level EXCEPT ![s] =
                          [id |-> NextId(stock_levels), quantity |-> 0, new |-> TRUE]]
    /\ writer' = s
    /\ pc' = [pc EXCEPT ![s] = "loaded"]
    /\ UNCHANGED <<catalog, ledger, req, pre, result, orders, call, imp, erp, view>>

\* crud.py 149-151: no row was found; a StockLevel with quantity 0 is added
\* and flushed.  The INSERT takes the write lock and stays uncommitted; it
\* violates uq_stock_levels_item_location when another session has committed
\* a row of the pair since the SELECT.
Flush(s) ==
    /\ pc[s] = "selected"
    /\ writer = 0
    /\ IF StockRows(stock_levels, req[s].item_id, req[s].location_id) # {}
       THEN /\ result' = [result EXCEPT ![s] = ErrIntegrity]
            /\ pc' = [pc EXCEPT ![s] = "failed"]
            /\ UNCHANGED <<stock_level, writer>>
       ELSE /\ stock_level' = [stock_level EXCEPT ![s] =
                                 [id |-> NextId(stock_levels), quantity |-> 0, new |-> TRUE]]
            /\ writer' = s
            /\ pc' = [pc EXCEPT ![s] = "loaded"]
            /\ UNCHANGED result
    /\ UNCHANGED <<catalog, ledger, req, pre, orders, call, imp, erp, view>>

\* crud.py 153-172: the delta is checked and applied to the session's object
Apply(s) ==
    /\ pc[s] = "loaded"
    /\ LET r == ApplyDelta(req[s].transaction_type, stock_level[s].quantity, req[s].quantity)
       IN  IF r.ok
           THEN /\ stock_level' = [stock_level EXCEPT ![s].quantity = r.quantity]
                /\ pc' = [pc EXCEPT ![s] = "applied"]
                /\ UNCHANGED result
           ELSE /\ result' = [result EXCEPT ![s] = r.error]
                /\ pc' = [pc EXCEPT ![s] = "failed"]
                /\ UNCHANGED stock_level
    /\ UNCHANGED <<catalog, ledger, writer, req, pre, orders, call, imp, erp, view>>

\* Commit with the commit issued before the transaction row is added
Commit_StockOnly(s) ==
    /\ pc[s] = "applied"
    /\ writer \in {0, s}
    /\ stock_levels' = FlushStockLevel(stock_levels, stock_level[s], req[s])
    /\ writer' = 0
    /\ result' = [result EXCEPT ![s] = "ok"]
    /\ pc' = [pc EXCEPT ![s] = "done"]
    /\ UNCHANGED <<catalog, transactions, locals, orders, call, imp, erp, view>>

\* crud.py 174-186: the transaction row is added and db.commit() flushes the
\* StockLevel object and the transaction and commits both in one database
\* transaction
Commit(s) ==
    /\ pc[s] = "applied"
    /\ writer \in {0, s}
    /\ stock_levels' = FlushStockLevel(stock_levels, stock_level[s], req[s])
    /\ transactions' = Append(transactions, NewTransaction(NextRowId(transactions), req[s]))
    /\ writer' = 0
    /\ result' = [result EXCEPT ![s] = "ok"]
    /\ pc' = [pc EXCEPT ![s] = "done"]
    /\ UNCHANGED <<catalog, locals, orders, call, imp, erp, view>>

\* the rows of a sequence-kept table that a predicate on item_id keeps
RECURSIVE WithoutItem(_, _)
WithoutItem(rows, item_id) ==
    IF rows = <<>> THEN <<>>
    ELSE IF Head(rows).item_id = item_id THEN WithoutItem(Tail(rows), item_id)
    ELSE <<Head(rows)>> \o WithoutItem(Tail(rows), item_id)

\* delete_item emptying the whole transaction table
DeleteItem_Truncate(s, item_id) ==
    /\ pc[s] = "ready"
    /\ call' = [call EXCEPT ![s] = [op |-> "delete_item", key |-> item_id]]
    /\ IF ~ItemExists(item_id)
       THEN /\ result' = [result EXCEPT ![s] = ErrItem404]
            /\ pc' = [pc EXCEPT ![s] = "failed"]
            /\ UNCHANGED <<items, ledger, purchase_order_lines>>
       ELSE IF \E l \in purchase_order_lines : l.item_id = item_id
       THEN /\ writer = 0
            /\ result' = [result EXCEPT ![s] = ErrIntegrity]
            /\ pc' = [pc EXCEPT ![s] = "failed"]
            /\ UNCHANGED <<items, ledger, purchase_order_lines>>
       ELSE /\ writer = 0
            /\ items' = {i \in items : i.id # item_id}
            /\ stock_levels' = {r \in stock_levels : r.item_id # item_id}
            /\ transactions' = <<>>
            /\ result' = [result EXCEPT ![s] = "ok"]
            /\ pc' = [pc EXCEPT ![s] = "done"]
            /\ UNCHANGED purchase_order_lines
    /\ UNCHANGED <<locations, suppliers, purchase_orders, writer, locals, imp, erp, view>>

\* api/items.py 45-50 and crud.delete_item: a missing item is a 404; else
\* db.delete(item) cascades to the item's stock levels and transactions
\* (models.py 56-61) and, the relationship of models.py 62-64 having no
\* delete cascade, sets item_id of the purchase-order lines naming the item
\* to NULL.  The column of models.py 173 is Mapped[int] with no nullable=,
\* hence NOT NULL: that UPDATE raises IntegrityError, the session is rolled
\* back by get_db and nothing is deleted.
DeleteItem(s, item_id) ==
    /\ pc[s] = "ready"
    /\ call' = [call EXCEPT ![s] = [op |-> "delete_item", key |-> item_id]]
    /\ IF ~ItemExists(item_id)
       THEN /\ result' = [result EXCEPT ![s] = ErrItem404]
            /\ pc' = [pc EXCEPT ![s] = "failed"]
            /\ UNCHANGED <<items, ledger, purchase_order_lines>>
       ELSE IF \E l \in purchase_order_lines : l.item_id = item_id
       THEN /\ writer = 0
            /\ result' = [result EXCEPT ![s] = ErrIntegrity]
            /\ pc' = [pc EXCEPT ![s] = "failed"]
            /\ UNCHANGED <<items, ledger, purchase_order_lines>>
       ELSE /\ writer = 0
            /\ items' = {i \in items : i.id # item_id}
            /\ stock_levels' = {r \in stock_levels : r.item_id # item_id}
            /\ transactions' = WithoutItem(transactions, item_id)
            /\ result' = [result EXCEPT ![s] = "ok"]
            /\ pc' = [pc EXCEPT ![s] = "done"]
            /\ UNCHANGED purchase_order_lines
    /\ UNCHANGED <<locations, suppliers, purchase_orders, writer, locals, imp, erp, view>>

\* a statement that needs the write lock while another session holds it gives
\* up after SQLite's busy timeout
LockTimeout(s) ==
    /\ pc[s] \in {"selected", "applied"}
    /\ writer \notin {0, s}
    /\ result' = [result EXCEPT ![s] = ErrLocked]
    /\ pc' = [pc EXCEPT ![s] = "failed"]
    /\ UNCHANGED <<catalog, ledger, writer, locals, orders, call, imp, erp, view>>

\* get_db's finally: db.close() rolls back whatever the session left
\* uncommitted and the request is over
Close(s) ==
    /\ pc[s] \in {"done", "failed"}
    /\ writer' = IF writer = s THEN 0 ELSE writer
    /\ pc' = [pc EXCEPT ![s] = "idle"]
    /\ req' = [req EXCEPT ![s] = None]
    /\ stock_level' = [stock_level EXCEPT ![s] = None]
    /\ result' = [result EXCEPT ![s] = "none"]
    /\ pre' = [pre EXCEPT ![s] = None]
    /\ call' = [call EXCEPT ![s] = None]
    /\ imp' = [imp EXCEPT ![s] = None]
    /\ erp' = [erp EXCEPT ![s] = None]
    /\ view' = [view EXCEPT ![s] = None]
    /\ UNCHANGED <<catalog, ledger, orders>>

\* one request at a time: a request starts only when no other is under way
Alone(s) == \A o \in Sessions \ {s} : pc[o] = "idle"

Next ==
    \/ \E s \in Sessions : Alone(s) /\ GetDb(s)
    \/ \E s \in Sessions : \E sku \in Skus : CreateItem(s, sku)
    \/ \E s \in Sessions : \E name \in LocationNames : CreateLocation(s, name)
    \/ \E s \in Sessions : \E transaction_in \in InventoryTransactionCreate : Lookup(s, transaction_in)
    \/ \E s \in Sessions : SelectStock(s)
    \/ \E s \in Sessions : Flush(s)
    \/ \E s \in Sessions : Apply(s)
    \/ \E s \in Sessions : Commit(s)
    \/ \E s \in Sessions : Close(s)

Spec == Init /\ [][Next]_vars

\* the ledger with items created and deleted, requests one at a time; the
\* default location is the only one, and item ids stay within the ids a
\* request can name
NextLog ==
    \/ \E s \in Sessions : Alone(s) /\ GetDb(s)
    \/ \E s \in Sessions : \E sku \in Skus : NextId(items) \in ItemIds /\ CreateItem(s, sku)
    \/ \E s \in Sessions : \E item_id \in ItemIds : DeleteItem(s, item_id)
    \/ \E s \in Sessions : \E transaction_in \in InventoryTransactionCreate : Lookup(s, transaction_in)
    \/ \E s \in Sessions : SelectStock(s)
    \/ \E s \in Sessions : Flush(s)
    \/ \E s \in Sessions : Apply(s)
    \/ \E s \in Sessions : Commit(s)
    \/ \E s \in Sessions : Close(s)

SpecLog == Init /\ [][NextLog]_vars

\* requests of several sessions interleave at every database statement; the
\* catalog already holds one item and the default location
InitConc ==
    /\ items = {ItemCreate(1, "A1")}
    /\ locations = {[id |-> 1, name |-> "Hauptlager"]}
    /\ stock_levels = {}
    /\ transactions = <<>>
    /\ writer = 0
    /\ pc = [s \in Sessions |-> "idle"]
    /\ req = [s \in Sessions |-> None]
    /\ stock_level = [s \in Sessions |-> None]
    /\ result = [s \in Sessions |-> "none"]
    /\ pre = [s \in Sessions |-> None]
    /\ suppliers = {}
    /\ purchase_orders = {}
    /\ purchase_order_lines = {}
    /\ call = [s \in Sessions |-> None]
    /\ imp = [s \in Sessions |-> None]
    /\ erp = [s \in Sessions |-> None]
    /\ view = [s \in Sessions |-> None]

\* the concurrent requests all name the one (item, location) pair that exists
SamePair == {t \in InventoryTransactionCreate : t.item_id = 1 /\ t.location_id = 1}

NextConc ==
    \/ \E s \in Sessions : GetDb(s)
    \/ \E s \in Sessions : \E transaction_in \in SamePair : Lookup(s, transaction_in)
    \/ \E s \in Sessions : SelectStock(s)
    \/ \E s \in Sessions : Flush(s)
    \/ \E s \in Sessions : Apply(s)
    \/ \E s \in Sessions : Commit(s)
    \/ \E s \in Sessions : LockTimeout(s)
    \/ \E s \in Sessions : Close(s)

SpecConc == InitConc /\ [][NextConc]_vars

\* =================================================================
\* Suppliers, purchase orders and the ERP import
\* =================================================================
\* the four tables an import reads and writes
Committed ==
    [suppliers |-> suppliers, items |-> items,
     purchase_orders |-> purchase_orders,
     purchase_order_lines |-> purchase_order_lines]

\* what an importing session reads: the committed tables, or its own
\* uncommitted copy once it has written (it then holds the write lock)
View(s) == IF imp[s].work # None THEN imp[s].work ELSE Committed

\* the row with the lowest id, which is what .first() returns on a table scan
FirstRow(rows) == CHOOSE r \in rows : \A o \in rows : r.id <= o.id

\* INSERT of a list of lines for one order; ids are handed out in list order
InsertLines(rows, purchase_order_id, lines) ==
    rows \cup {[id |-> NextId(rows) + i - 1,
                purchase_order_id |-> purchase_order_id,
                item_id |-> lines[i].item_id,
                description |-> lines[i].description,
                ordered_quantity |-> lines[i].ordered_quantity,
                unit_price |-> lines[i].unit_price,
                received_quantity |-> 0] : i \in 1..Len(lines)}

\* the lines of an order in id order, without id and order id
RECURSIVE LineContents(_)
LineContents(rows) ==
    IF rows = {} THEN <<>>
    ELSE LET r == FirstRow(rows)
         IN  <<[item_id |-> r.item_id, description |-> r.description,
                ordered_quantity |-> r.ordered_quantity,
                unit_price |-> r.unit_price,
                received_quantity |-> r.received_quantity]>>
                 \o LineContents(rows \ {r})
LinesOf(lines, purchase_order_id) ==
    {l \in lines : l.purchase_order_id = purchase_order_id}

\* crud.create_supplier
CreateSupplier(s, name) ==
    /\ pc[s] = "ready"
    /\ call' = [call EXCEPT ![s] = [op |-> "create_supplier", key |-> name]]
    /\ IF \E r \in suppliers : r.name = name
       THEN /\ result' = [result EXCEPT ![s] = ErrSupplier]
            /\ pc' = [pc EXCEPT ![s] = "failed"]
            /\ UNCHANGED suppliers
       ELSE /\ writer = 0
            /\ suppliers' = suppliers \cup {[id |-> NextId(suppliers), name |-> name]}
            /\ result' = [result EXCEPT ![s] = "ok"]
            /\ pc' = [pc EXCEPT ![s] = "done"]
    /\ UNCHANGED <<catalog, ledger, writer, locals, purchase_orders, purchase_order_lines, imp, erp, view>>

\* create_purchase_order without the order_number check of lines 243-244
CreatePurchaseOrder_NoCheck(s, order_in) ==
    /\ pc[s] = "ready"
    /\ NextId(purchase_order_lines) + Len(order_in.lines) - 1 <= MaxLineId
    /\ call' = [call EXCEPT ![s] = [op |-> "create_purchase_order", key |-> order_in.order_number,
                                      arg |-> order_in]]
    /\ IF \E i \in 1..Len(order_in.lines) :
              order_in.lines[i].item_id # NoId /\ ~ItemExists(order_in.lines[i].item_id)
       THEN /\ result' = [result EXCEPT ![s] = ErrLineItem]
            /\ pc' = [pc EXCEPT ![s] = "failed"]
            /\ UNCHANGED <<purchase_orders, purchase_order_lines>>
       ELSE IF \E i \in 1..Len(order_in.lines) : order_in.lines[i].item_id = NoId
       THEN /\ writer = 0
            /\ result' = [result EXCEPT ![s] = ErrIntegrity]
            /\ pc' = [pc EXCEPT ![s] = "failed"]
            /\ UNCHANGED <<purchase_orders, purchase_order_lines>>
       ELSE /\ writer = 0
            /\ purchase_orders' = purchase_orders \cup
                   {[id |-> NextId(purchase_orders),
                     order_number |-> order_in.order_number,
                     supplier_id |-> order_in.supplier_id,
                     status |-> order_in.status,
                     expected_date |-> order_in.expected_date,
                     notes |-> order_in.notes]}
            /\ purchase_order_lines' =
                   InsertLines(purchase_order_lines, NextId(purchase_orders), order_in.lines)
            /\ result' = [result EXCEPT ![s] = "ok"]
            /\ pc' = [pc EXCEPT ![s] = "done"]
    /\ UNCHANGED <<catalog, ledger, writer, locals, suppliers, imp, erp, view>>

\* crud.create_purchase_order: the order_number check, then the header and
\* its lines (_build_purchase_order_line looks each named item up), one
\* commit.  A line without an item is built with item None, and its INSERT
\* violates the NOT NULL item_id of models.py 173: the commit raises
\* IntegrityError and neither the header nor a line is stored.
CreatePurchaseOrder(s, order_in) ==
    /\ pc[s] = "ready"
    /\ NextId(purchase_order_lines) + Len(order_in.lines) - 1 <= MaxLineId
    /\ call' = [call EXCEPT ![s] = [op |-> "create_purchase_order", key |-> order_in.order_number,
                                      arg |-> order_in]]
    /\ IF \E o \in purchase_orders : o.order_number = order_in.order_number
       THEN /\ result' = [result EXCEPT ![s] = ErrOrderNumber]
            /\ pc' = [pc EXCEPT ![s] = "failed"]
            /\ UNCHANGED <<purchase_orders, purchase_order_lines>>
       ELSE IF \E i \in 1..Len(order_in.lines) :
                   order_in.lines[i].item_id # NoId /\ ~ItemExists(order_in.lines[i].item_id)
       THEN /\ result' = [result EXCEPT ![s] = ErrLineItem]
            /\ pc' = [pc EXCEPT ![s] = "failed"]
            /\ UNCHANGED <<purchase_orders, purchase_order_lines>>
       ELSE IF \E i \in 1..Len(order_in.lines) : order_in.lines[i].item_id = NoId
       THEN /\ writer = 0
            /\ result' = [result EXCEPT ![s] = ErrIntegrity]
            /\ pc' = [pc EXCEPT ![s] = "failed"]
            /\ UNCHANGED <<purchase_orders, purchase_order_lines>>
       ELSE /\ writer = 0
            /\ purchase_orders' = purchase_orders \cup
                   {[id |-> NextId(purchase_orders),
                     order_number |-> order_in.order_number,
                     supplier_id |-> order_in.supplier_id,
                     status |-> order_in.status,
                     expected_date |-> order_in.expected_date,
                     notes |-> order_in.notes]}
            /\ purchase_order_lines' =
                   InsertLines(purchase_order_lines, NextId(purchase_orders), order_in.lines)
            /\ result' = [result EXCEPT ![s] = "ok"]
            /\ pc' = [pc EXCEPT ![s] = "done"]
    /\ UNCHANGED <<catalog, ledger, writer, locals, suppliers, imp, erp, view>>

\* set_purchase_order_line_received adding the value to what was received
SetLineReceived_Adds(s, line_id, received_quantity) ==
    /\ pc[s] = "ready"
    /\ call' = [call EXCEPT ![s] =
                   [op |-> "set_line_received", key |-> line_id, arg |-> received_quantity]]
    /\ IF ~\E l \in purchase_order_lines : l.id = line_id
       THEN /\ result' = [result EXCEPT ![s] = ErrLine404]
            /\ pc' = [pc EXCEPT ![s] = "failed"]
            /\ UNCHANGED purchase_order_lines
       ELSE IF received_quantity < 0
       THEN /\ result' = [result EXCEPT ![s] = ErrReceived]
            /\ pc' = [pc EXCEPT ![s] = "failed"]
            /\ UNCHANGED purchase_order_lines
       ELSE /\ writer = 0
            /\ purchase_order_lines' =
                   {IF l.id = line_id THEN [l EXCEPT !.received_quantity = @ + received_quantity]
                    ELSE l : l \in purchase_order_lines}
            /\ result' = [result EXCEPT ![s] = "ok"]
            /\ pc' = [pc EXCEPT ![s] = "done"]
    /\ UNCHANGED <<catalog, ledger, writer, locals, suppliers, purchase_orders, imp, erp, view>>

\* set_purchase_order_line_received booking the delivery into the stock of
\* the line's item
SetLineReceived_Receives(s, line_id, received_quantity) ==
    /\ pc[s] = "ready"
    /\ call' = [call EXCEPT ![s] =
                   [op |-> "set_line_received", key |-> line_id, arg |-> received_quantity]]
    /\ IF ~\E l \in purchase_order_lines : l.id = line_id
       THEN /\ result' = [result EXCEPT ![s] = ErrLine404]
            /\ pc' = [pc EXCEPT ![s] = "failed"]
            /\ UNCHANGED purchase_order_lines
       ELSE IF received_quantity < 0
       THEN /\ result' = [result EXCEPT ![s] = ErrReceived]
            /\ pc' = [pc EXCEPT ![s] = "failed"]
            /\ UNCHANGED purchase_order_lines
       ELSE /\ writer = 0
            /\ purchase_order_lines' =
                   {IF l.id = line_id THEN [l EXCEPT !.received_quantity = received_quantity]
                    ELSE l : l \in purchase_order_lines}
            /\ result' = [result EXCEPT ![s] = "ok"]
            /\ pc' = [pc EXCEPT ![s] = "done"]
    /\ IF pc'[s] = "done"
       THEN stock_levels' =
                {IF \E l \in purchase_order_lines : l.id = line_id /\ l.item_id = r.item_id
                 THEN [r EXCEPT !.quantity = @ + received_quantity] ELSE r : r \in stock_levels}
       ELSE UNCHANGED stock_levels
    /\ UNCHANGED <<catalog, transactions, writer, locals, suppliers, purchase_orders, imp, erp, view>>

\* api/purchase_orders.py 57-70 and crud.set_purchase_order_line_received
SetLineReceived(s, line_id, received_quantity) ==
    /\ pc[s] = "ready"
    /\ call' = [call EXCEPT ![s] =
                   [op |-> "set_line_received", key |-> line_id, arg |-> received_quantity]]
    /\ IF ~\E l \in purchase_order_lines : l.id = line_id
       THEN /\ result' = [result EXCEPT ![s] = ErrLine404]
            /\ pc' = [pc EXCEPT ![s] = "failed"]
            /\ UNCHANGED purchase_order_lines
       ELSE IF received_quantity < 0
       THEN /\ result' = [result EXCEPT ![s] = ErrReceived]
            /\ pc' = [pc EXCEPT ![s] = "failed"]
            /\ UNCHANGED purchase_order_lines
       ELSE /\ writer = 0
            /\ purchase_order_lines' =
                   {IF l.id = line_id THEN [l EXCEPT !.received_quantity = received_quantity]
                    ELSE l : l \in purchase_order_lines}
            /\ result' = [result EXCEPT ![s] = "ok"]
            /\ pc' = [pc EXCEPT ![s] = "done"]
    /\ UNCHANGED <<catalog, ledger, writer, locals, suppliers, purchase_orders, imp, erp, view>>

\* schemas.PurchaseOrderUpdate: every field is optional and None when the
\* client leaves it out.  An update is the record of the fields that are not
\* None, with the value a client sends for each.
UpdateFields == {"supplier_id", "status", "expected_date", "notes"}
UpdateValues ==
    [supplier_id |-> 1, status |-> RELEASED, expected_date |-> "2024-05-01",
     notes |-> "eilig"]
PurchaseOrderUpdate ==
    {[f \in D |-> UpdateValues[f]] :
        D \in {{}, {"status"}, {"expected_date", "notes"}, UpdateFields}}

\* the loop of update_purchase_order writing None into the fields left out
Updated_MergeNull(o, order_in) ==
    [f \in DOMAIN o |->
        IF f \in DOMAIN order_in THEN order_in[f]
        ELSE IF f \in {"expected_date", "notes"} THEN Null
        ELSE o[f]]

\* the loop of update_purchase_order (crud.py 265-268): setattr for the fields
\* whose value is not None
Updated(o, order_in) ==
    [f \in DOMAIN o |->
        IF f \in UpdateFields /\ f \in DOMAIN order_in THEN order_in[f] ELSE o[f]]

\* PUT /purchase-orders/{order_id} (api/purchase_orders.py 30-38) and
\* crud.update_purchase_order
UpdatePurchaseOrder(s, order_id, order_in) ==
    /\ pc[s] = "ready"
    /\ call' = [call EXCEPT ![s] =
                   [op |-> "update_purchase_order", key |-> order_id, arg |-> order_in]]
    /\ IF ~\E o \in purchase_orders : o.id = order_id
       THEN /\ result' = [result EXCEPT ![s] = ErrOrder404]
            /\ pc' = [pc EXCEPT ![s] = "failed"]
            /\ UNCHANGED purchase_orders
       ELSE /\ writer = 0
            /\ purchase_orders' =
                   {IF o.id = order_id THEN Updated(o, order_in) ELSE o : o \in purchase_orders}
            /\ result' = [result EXCEPT ![s] = "ok"]
            /\ pc' = [pc EXCEPT ![s] = "done"]
    /\ UNCHANGED <<catalog, ledger, writer, locals, suppliers, purchase_order_lines, imp, erp, view>>

\* POST /purchase-orders/{order_id}/lines (api/purchase_orders.py 41-53) and
\* crud.add_purchase_order_line: _build_purchase_order_line looks the item up
\* and raises before the line is appended; the new line has the column
\* default received_quantity 0.  A line without an item violates the NOT
\* NULL item_id of models.py 173 at the commit, which raises IntegrityError.
AddPurchaseOrderLine(s, order_id, line_in) ==
    /\ pc[s] = "ready"
    /\ NextId(purchase_order_lines) <= MaxLineId
    /\ call' = [call EXCEPT ![s] =
                   [op |-> "add_purchase_order_line", key |-> order_id, arg |-> line_in]]
    /\ IF ~\E o \in purchase_orders : o.id = order_id
       THEN /\ result' = [result EXCEPT ![s] = ErrOrder404]
            /\ pc' = [pc EXCEPT ![s] = "failed"]
            /\ UNCHANGED purchase_order_lines
       ELSE IF line_in.item_id # NoId /\ ~ItemExists(line_in.item_id)
       THEN /\ result' = [result EXCEPT ![s] = ErrLineItem]
            /\ pc' = [pc EXCEPT ![s] = "failed"]
            /\ UNCHANGED purchase_order_lines
       ELSE IF line_in.item_id = NoId
       THEN /\ writer = 0
            /\ result' = [result EXCEPT ![s] = ErrIntegrity]
            /\ pc' = [pc EXCEPT ![s] = "failed"]
            /\ UNCHANGED purchase_order_lines
       ELSE /\ writer = 0
            /\ purchase_order_lines' = InsertLines(purchase_order_lines, order_id, <<line_in>>)
            /\ result' = [result EXCEPT ![s] = "ok"]
            /\ pc' = [pc EXCEPT ![s] = "done"]
    /\ UNCHANGED <<catalog, ledger, writer, locals, suppliers, purchase_orders, imp, erp, view>>

\* ------------------------------------ import_purchase_orders_from_payload
\* crud.py 364-367 and the locals of one loop iteration
NewImport(payload) ==
    [payload |-> payload,       \* the orders not yet finished; the head is "order"
     seen |-> <<>>,             \* the orders finished so far
     outcomes |-> <<>>,         \* and how each ended: imported, updated or skipped
     imported |-> 0, updated |-> 0, skipped |-> 0, details |-> 0,
     work |-> None,             \* the session's uncommitted copy of the tables
     supplier_id |-> NoId,      \* "supplier"
     order |-> None,            \* "purchase_order" / "existing" as the ORM holds it
     is_new |-> FALSE,          \* existing is None
     clear |-> FALSE,           \* lines.clear() not yet flushed
     pending |-> <<>>,          \* lines appended and not yet INSERTed
     k |-> 1,                   \* the line _replace_purchase_order_lines is at
     before |-> Committed,      \* the committed tables when "order" was taken up
     last |-> None]             \* how the order before "order" ended

\* the number of lines a payload brings
RECURSIVE TotalLines(_)
TotalLines(payload) ==
    IF payload = <<>> THEN 0 ELSE Len(Head(payload).lines) + TotalLines(Tail(payload))

\* crud.py 369: the loop takes the first order of the payload
ImportBegin(s, payload) ==
    /\ pc[s] = "ready"
    /\ NextId(purchase_order_lines) + TotalLines(payload) - 1 <= MaxLineId
    /\ imp' = [imp EXCEPT ![s] = NewImport(payload)]
    /\ pc' = [pc EXCEPT ![s] = "imp_supplier"]
    /\ UNCHANGED <<catalog, ledger, writer, locals, result, orders, call, erp, view>>

\* crud.py 370, 351-354: get_supplier_by_name compares lower-cased names
ImportSupplier(s) ==
    /\ pc[s] = "imp_supplier"
    /\ LET order == Head(imp[s].payload)
           found == {r \in View(s).suppliers : Lower(r.name) = Lower(order.supplier_name)}
       IN  IF found # {}
           THEN /\ imp' = [imp EXCEPT ![s].supplier_id = FirstRow(found).id]
                /\ pc' = [pc EXCEPT ![s] = "imp_order"]
           ELSE /\ pc' = [pc EXCEPT ![s] = "imp_supplier_ins"]
                /\ UNCHANGED imp
    /\ UNCHANGED <<catalog, ledger, writer, locals, result, orders, call, erp, view>>

\* crud.py 355-357: Supplier(name=name) is added and flushed.  The INSERT
\* takes the write lock; uq_suppliers_name refuses it when a row of that exact
\* name was committed since the SELECT, and that IntegrityError is raised
\* outside the try of line 392.
ImportSupplierInsert(s) ==
    /\ pc[s] = "imp_supplier_ins"
    /\ writer \in {0, s}
    /\ LET order == Head(imp[s].payload)
           w == View(s)
       IN  IF \E r \in w.suppliers : r.name = order.supplier_name
           THEN /\ result' = [result EXCEPT ![s] = ErrIntegrity]
                /\ pc' = [pc EXCEPT ![s] = "failed"]
                /\ UNCHANGED <<imp, writer>>
           ELSE /\ imp' = [imp EXCEPT
                      ![s].work = [w EXCEPT !.suppliers =
                                      w.suppliers \cup {[id |-> NextId(w.suppliers),
                                                         name |-> order.supplier_name]}],
                      ![s].supplier_id = NextId(w.suppliers)]
                /\ writer' = s
                /\ pc' = [pc EXCEPT ![s] = "imp_order"]
                /\ UNCHANGED result
    /\ UNCHANGED <<catalog, ledger, locals, orders, call, erp, view>>

\* ImportOrder leaving a new order's status to the column default
ImportOrder_DraftStatus(s) ==
    /\ pc[s] = "imp_order"
    /\ LET order == Head(imp[s].payload)
           found == {o \in View(s).purchase_orders : o.order_number = order.order_number}
           header == [supplier_id |-> imp[s].supplier_id, status |-> order.status,
                      expected_date |-> order.expected_date, notes |-> order.notes]
       IN  imp' = [imp EXCEPT
               ![s].order =
                   IF found = {}
                   THEN [id |-> NoId, order_number |-> order.order_number,
                         supplier_id |-> header.supplier_id, status |-> DRAFT,
                         expected_date |-> header.expected_date, notes |-> header.notes]
                   ELSE [FirstRow(found) EXCEPT
                             !.supplier_id = header.supplier_id, !.status = header.status,
                             !.expected_date = header.expected_date, !.notes = header.notes],
               ![s].is_new = (found = {}),
               ![s].clear = (found # {}),
               ![s].pending = <<>>,
               ![s].k = 1]
    /\ pc' = [pc EXCEPT ![s] =
                 IF Head(imp[s].payload).lines = <<>> THEN "imp_flush" ELSE "imp_item"]
    /\ UNCHANGED <<catalog, ledger, writer, locals, result, orders, call, erp, view>>

\* crud.py 371-379 and 385-388, and lines.clear() of line 406: the order is
\* looked up by its number; a new header is built, or the existing one gets
\* the incoming supplier, status, expected_date and notes
ImportOrder(s) ==
    /\ pc[s] = "imp_order"
    /\ LET order == Head(imp[s].payload)
           found == {o \in View(s).purchase_orders : o.order_number = order.order_number}
           header == [supplier_id |-> imp[s].supplier_id, status |-> order.status,
                      expected_date |-> order.expected_date, notes |-> order.notes]
       IN  imp' = [imp EXCEPT
               ![s].order =
                   IF found = {}
                   THEN [id |-> NoId, order_number |-> order.order_number,
                         supplier_id |-> header.supplier_id, status |-> header.status,
                         expected_date |-> header.expected_date, notes |-> header.notes]
                   ELSE [FirstRow(found) EXCEPT
                             !.supplier_id = header.supplier_id, !.status = header.status,
                             !.expected_date = header.expected_date, !.notes = header.notes],
               ![s].is_new = (found = {}),
               ![s].clear = (found # {}),
               ![s].pending = <<>>,
               ![s].k = 1]
    /\ pc' = [pc EXCEPT ![s] =
                 IF Head(imp[s].payload).lines = <<>> THEN "imp_flush" ELSE "imp_item"]
    /\ UNCHANGED <<catalog, ledger, writer, locals, result, orders, call, erp, view>>

\* crud.py 413-420: the PurchaseOrderLine built for an incoming line
NewLine(line, item_id) ==
    [item_id |-> item_id, description |-> line.description,
     ordered_quantity |-> line.ordered_quantity, unit_price |-> line.unit_price]

\* FlushOrder without the DELETE of the lines that lines.clear() removed
FlushOrder_KeepOld(w, st) ==
    IF st.is_new THEN w
    ELSE [w EXCEPT
             !.purchase_orders =
                 {IF o.id = st.order.id THEN st.order ELSE o : o \in w.purchase_orders},
             !.purchase_order_lines =
                 InsertLines(w.purchase_order_lines, st.order.id, st.pending)]

\* what a flush writes for the order the ORM holds.  A new PurchaseOrder is
\* not in the session before db.add (line 382), so nothing is written for it;
\* for an existing order the header is UPDATEd, the appended lines are
\* INSERTed and the lines removed by lines.clear() are DELETEd (delete-orphan)
FlushOrder(w, st) ==
    IF st.is_new THEN w
    ELSE [w EXCEPT
             !.purchase_orders =
                 {IF o.id = st.order.id THEN st.order ELSE o : o \in w.purchase_orders},
             !.purchase_order_lines =
                 InsertLines(w.purchase_order_lines, st.order.id, st.pending)
                     \ (IF st.clear THEN LinesOf(w.purchase_order_lines, st.order.id) ELSE {})]

\* the ORM state after such a flush
Flushed(st) ==
    IF st.is_new THEN st ELSE [st EXCEPT !.pending = <<>>, !.clear = FALSE]

\* where _replace_purchase_order_lines goes after line k
AfterLine(s) ==
    IF imp[s].k = Len(Head(imp[s].payload).lines) THEN "imp_flush" ELSE "imp_item"

\* get_or_create_item_by_sku creating the item without looking the sku up,
\* on a table without uq_items_sku
ImportItem_AlwaysCreate(s) ==
    /\ pc[s] = "imp_item"
    /\ writer \in {0, s}
    /\ LET line == Head(imp[s].payload).lines[imp[s].k]
           w == View(s)
           w1 == [w EXCEPT !.items = w.items \cup {ErpItem(NextId(w.items), line)}]
       IN  imp' = [imp EXCEPT ![s] =
                      [Flushed(imp[s]) EXCEPT
                           !.work = FlushOrder(w1, imp[s]),
                           !.pending = Append(@, NewLine(line, NextId(w.items))),
                           !.k = @ + 1]]
    /\ writer' = s
    /\ pc' = [pc EXCEPT ![s] = AfterLine(s)]
    /\ UNCHANGED <<catalog, ledger, locals, result, orders, call, erp, view>>

\* crud.py 407-420, 335-337: the item of line k is looked up by sku; when it
\* exists the line is appended
ImportItem(s) ==
    /\ pc[s] = "imp_item"
    /\ LET line == Head(imp[s].payload).lines[imp[s].k]
           found == {i \in View(s).items : i.sku = line.sku}
       IN  IF found # {}
           THEN /\ imp' = [imp EXCEPT
                      ![s].pending = Append(@, NewLine(line, FirstRow(found).id)),
                      ![s].k = @ + 1]
                /\ pc' = [pc EXCEPT ![s] = AfterLine(s)]
           ELSE /\ pc' = [pc EXCEPT ![s] = "imp_item_ins"]
                /\ UNCHANGED imp
    /\ UNCHANGED <<catalog, ledger, writer, locals, result, orders, call, erp, view>>

\* ImportItemInsert on a connection in autocommit mode: the UPDATE of an
\* existing order's header, sent before the refused INSERT, stays
ImportItemInsert_Autocommit(s) ==
    /\ pc[s] = "imp_item_ins"
    /\ writer \in {0, s}
    /\ LET line == Head(imp[s].payload).lines[imp[s].k]
           w == View(s)
           w1 == [w EXCEPT !.items = w.items \cup {ErpItem(NextId(w.items), line)}]
       IN  IF \E i \in w.items : i.sku = line.sku
           THEN /\ result' = [result EXCEPT ![s] = ErrIntegrity]
                /\ pc' = [pc EXCEPT ![s] = "failed"]
                /\ purchase_orders' =
                       IF imp[s].is_new THEN purchase_orders
                       ELSE {IF o.id = imp[s].order.id THEN imp[s].order ELSE o :
                                o \in purchase_orders}
                /\ UNCHANGED <<imp, writer, suppliers, purchase_order_lines>>
           ELSE /\ imp' = [imp EXCEPT ![s] =
                      [Flushed(imp[s]) EXCEPT
                           !.work = FlushOrder(w1, imp[s]),
                           !.pending = Append(@, NewLine(line, NextId(w.items))),
                           !.k = @ + 1]]
                /\ writer' = s
                /\ pc' = [pc EXCEPT ![s] = AfterLine(s)]
                /\ UNCHANGED <<result, orders>>
    /\ UNCHANGED <<catalog, ledger, locals, call, erp, view>>

\* crud.py 338-348: the item is added and flushed, which also flushes what
\* the session holds for an existing order; then the line is appended.
\* uq_items_sku refuses the INSERT when the sku was committed since the
\* SELECT, and that IntegrityError too is raised outside the try.
ImportItemInsert(s) ==
    /\ pc[s] = "imp_item_ins"
    /\ writer \in {0, s}
    /\ LET line == Head(imp[s].payload).lines[imp[s].k]
           w == View(s)
           w1 == [w EXCEPT !.items = w.items \cup {ErpItem(NextId(w.items), line)}]
       IN  IF \E i \in w.items : i.sku = line.sku
           THEN /\ result' = [result EXCEPT ![s] = ErrIntegrity]
                /\ pc' = [pc EXCEPT ![s] = "failed"]
                /\ UNCHANGED <<imp, writer>>
           ELSE /\ imp' = [imp EXCEPT ![s] =
                      [Flushed(imp[s]) EXCEPT
                           !.work = FlushOrder(w1, imp[s]),
                           !.pending = Append(@, NewLine(line, NextId(w.items))),
                           !.k = @ + 1]]
                /\ writer' = s
                /\ pc' = [pc EXCEPT ![s] = AfterLine(s)]
                /\ UNCHANGED result
    /\ UNCHANGED <<catalog, ledger, locals, orders, call, erp, view>>

\* crud.py 423 and 382-383 / 390: the last flush of
\* _replace_purchase_order_lines, then the order is counted
ImportFlush(s) ==
    /\ pc[s] = "imp_flush"
    /\ IF imp[s].is_new
       THEN /\ imp' = [imp EXCEPT ![s].imported = @ + 1]
            /\ UNCHANGED writer
       ELSE /\ writer \in {0, s}
            /\ imp' = [imp EXCEPT ![s] =
                      [Flushed(imp[s]) EXCEPT
                           !.work = FlushOrder(View(s), imp[s]),
                           !.updated = @ + 1]]
            /\ writer' = s
    /\ pc' = [pc EXCEPT ![s] = "imp_commit"]
    /\ UNCHANGED <<catalog, ledger, locals, result, orders, call, erp, view>>

\* the locals once the loop has finished an order and takes up the next
NextOrder(st, tables, outcome) ==
    [st EXCEPT
        !.payload = Tail(@),
        !.seen = Append(@, Head(st.payload)),
        !.outcomes = Append(@, outcome),
        !.work = None,
        !.supplier_id = NoId, !.order = None, !.is_new = FALSE, !.clear = FALSE,
        !.pending = <<>>, !.k = 1,
        !.before = tables,
        !.last = [order |-> Head(st.payload), outcome |-> outcome, before |-> st.before]]

\* crud.py 392-399: db.commit() INSERTs a new order with its lines and
\* commits everything the session wrote for this order.  An IntegrityError
\* (uq_purchase_orders_number) is caught: rollback, skipped, one detail.
\* After the last order the result is returned.
ImportCommit(s) ==
    /\ pc[s] = "imp_commit"
    /\ writer \in {0, s}
    /\ LET w == View(s)
           st == imp[s]
           id == NextId(w.purchase_orders)
           w1 == IF st.is_new
                 THEN [w EXCEPT
                          !.purchase_orders = @ \cup {[st.order EXCEPT !.id = id]},
                          !.purchase_order_lines = InsertLines(@, id, st.pending)]
                 ELSE w
           more == Len(st.payload) > 1
       IN  /\ IF st.is_new /\ \E o \in w.purchase_orders : o.order_number = st.order.order_number
              THEN /\ imp' = [imp EXCEPT ![s] =
                             [NextOrder(st, Committed, "skipped") EXCEPT
                                  !.skipped = @ + 1, !.details = @ + 1]]
                   /\ UNCHANGED <<items, orders>>
              ELSE /\ imp' = [imp EXCEPT ![s] =
                             NextOrder(st, w1, IF st.is_new THEN "imported" ELSE "updated")]
                   /\ suppliers' = w1.suppliers
                   /\ items' = w1.items
                   /\ purchase_orders' = w1.purchase_orders
                   /\ purchase_order_lines' = w1.purchase_order_lines
           /\ pc' = [pc EXCEPT ![s] = IF more THEN "imp_supplier" ELSE "done"]
           /\ result' = [result EXCEPT ![s] = IF more THEN @ ELSE "ok"]
    /\ writer' = 0
    /\ UNCHANGED <<locations, ledger, locals, call, erp, view>>

\* ------------------------------------------------------------ erp.py
\* schemas.ERPExportResponse
ERPExportResponse(status, transmitted, message) ==
    [status |-> status, transmitted |-> transmitted, message |-> message]
ErrNoUrl == "ERP-Basis-URL ist nicht konfiguriert."

\* push_inventory_snapshot noting the export in the database before the POST
\* and committing the note after it
PushInventorySnapshot_InTransaction(s, base_url) ==
    /\ pc[s] = "ready"
    /\ writer = 0
    /\ writer' = s
    /\ call' = [call EXCEPT ![s] = [op |-> "push_inventory_snapshot", key |-> base_url]]
    /\ erp' = [erp EXCEPT ![s] =
                  [base_url |-> Rstrip(base_url), entries |-> Cardinality(stock_levels),
                   posted |-> TRUE, exchange |-> None, response |-> None]]
    /\ pc' = [pc EXCEPT ![s] = "push_await"]
    /\ UNCHANGED <<catalog, ledger, locals, result, orders, imp, view>>
\* POST /erp/export/inventory (api/erp.py 15-19): ERPService builds the
\* snapshot, one entry per stock level (erp.py 89-109), and
\* ERPClient.push_inventory_snapshot returns at once without a base URL
\* (erp.py 25-30) or opens the client and awaits the POST
PushInventorySnapshot(s, base_url) ==
    /\ pc[s] = "ready"
    /\ call' = [call EXCEPT ![s] = [op |-> "push_inventory_snapshot", key |-> base_url]]
    /\ IF ~Configured(Rstrip(base_url))
       THEN /\ erp' = [erp EXCEPT ![s] =
                      [base_url |-> Rstrip(base_url), entries |-> Cardinality(stock_levels),
                       posted |-> FALSE, exchange |-> None,
                       response |-> ERPExportResponse("disabled", 0, ErrNoUrl)]]
            /\ result' = [result EXCEPT ![s] = "ok"]
            /\ pc' = [pc EXCEPT ![s] = "done"]
       ELSE /\ erp' = [erp EXCEPT ![s] =
                      [base_url |-> Rstrip(base_url), entries |-> Cardinality(stock_levels),
                       posted |-> TRUE, exchange |-> None, response |-> None]]
            /\ pc' = [pc EXCEPT ![s] = "push_await"]
            /\ UNCHANGED result
    /\ UNCHANGED <<catalog, ledger, writer, locals, orders, imp, view>>

\* erp.py 31-47: the exchange ends.  An httpx.HTTPError is logged and
\* answered with status "error"; any other exception leaves the call; a reply
\* is read with the snapshot's length and "ok" as defaults.
PushReply(s, exchange) ==
    /\ pc[s] = "push_await"
    /\ IF "raise" \in DOMAIN exchange
       THEN IF exchange.raise \in HTTPError
            THEN /\ erp' = [erp EXCEPT ![s].exchange = exchange,
                                       ![s].response = ERPExportResponse("error", 0, exchange.raise)]
                 /\ result' = [result EXCEPT ![s] = "ok"]
                 /\ pc' = [pc EXCEPT ![s] = "done"]
            ELSE /\ erp' = [erp EXCEPT ![s].exchange = exchange]
                 /\ result' = [result EXCEPT ![s] = exchange.raise]
                 /\ pc' = [pc EXCEPT ![s] = "failed"]
       ELSE LET data == exchange.data
                n == erp[s].entries
            IN  /\ erp' = [erp EXCEPT
                       ![s].exchange = exchange,
                       ![s].response =
                           IF data.dict
                           THEN ERPExportResponse(Get(data.body, "status", "ok"),
                                                  Get(data.body, "transmitted", n),
                                                  Get(data.body, "message", Null))
                           ELSE ERPExportResponse("ok", n, Null)]
                /\ result' = [result EXCEPT ![s] = "ok"]
                /\ pc' = [pc EXCEPT ![s] = "done"]
    /\ UNCHANGED <<catalog, ledger, writer, locals, orders, call, imp, view>>

\* erp.py 127: the result of a sync that received no order
NoOrders == "Keine Bestellungen vom ERP erhalten."

\* ERPClient.fetch_purchase_orders, erp.py 65-74: the list the parsed reply
\* stands for
RawOrdersOf(data) ==
    IF data.kind \in {"dict", "list"} THEN data.orders ELSE <<>>

\* ERPService.fetch_purchase_orders validating all records in one try
Validated_OneTry(raw_orders) ==
    IF \A i \in 1..Len(raw_orders) : ModelValid(raw_orders[i])
    THEN [i \in 1..Len(raw_orders) |-> ModelValidate(raw_orders[i])]
    ELSE <<>>
\* ERPService.fetch_purchase_orders, erp.py 113-119: each record is validated
\* in its own try; a record that does not validate is logged and left out
Validated(raw_orders) ==
    LET valid == SelectSeq(raw_orders, ModelValid)
    IN  [i \in 1..Len(valid) |-> ModelValidate(valid[i])]

\* POST /erp/sync/purchase-orders (api/erp.py 22-26): sync_purchase_orders
\* awaits fetch_purchase_orders.  Without a base URL the client returns the
\* empty list at once (erp.py 50-51) and the sync answers that nothing was
\* received; otherwise the client is opened and the GET awaited.
SyncPurchaseOrders(s, base_url) ==
    /\ pc[s] = "ready"
    /\ call' = [call EXCEPT ![s] = [op |-> "sync_purchase_orders", key |-> base_url]]
    /\ IF ~Configured(Rstrip(base_url))
       THEN /\ erp' = [erp EXCEPT ![s] =
                      [base_url |-> Rstrip(base_url), exchange |-> None,
                       raw_orders |-> <<>>, orders |-> <<>>, response |-> NoOrders]]
            /\ result' = [result EXCEPT ![s] = "ok"]
            /\ pc' = [pc EXCEPT ![s] = "done"]
       ELSE /\ erp' = [erp EXCEPT ![s] =
                      [base_url |-> Rstrip(base_url), exchange |-> None,
                       raw_orders |-> <<>>, orders |-> <<>>, response |-> None]]
            /\ pc' = [pc EXCEPT ![s] = "fetch_await"]
            /\ UNCHANGED result
    /\ UNCHANGED <<catalog, ledger, writer, locals, orders, imp, view>>

\* erp.py 53-74, 111-128: the GET ends.  An httpx.HTTPError is logged and
\* stands for the empty list; any other exception leaves the call; a reply is
\* reduced to its list of records, the records are validated one by one, and
\* the valid ones, if any, go to import_purchase_orders_from_payload, whose
\* loop takes the first of them (crud.py 364-369).
FetchReply(s, exchange) ==
    /\ pc[s] = "fetch_await"
    /\ IF "raise" \in DOMAIN exchange /\ exchange.raise \notin HTTPError
       THEN /\ erp' = [erp EXCEPT ![s].exchange = exchange]
            /\ result' = [result EXCEPT ![s] = exchange.raise]
            /\ pc' = [pc EXCEPT ![s] = "failed"]
            /\ UNCHANGED imp
       ELSE LET raw_orders == IF "raise" \in DOMAIN exchange THEN <<>>
                              ELSE RawOrdersOf(exchange.data)
                valid == Validated(raw_orders)
            IN  /\ NextId(purchase_order_lines) + TotalLines(valid) - 1 <= MaxLineId
                /\ IF valid = <<>>
                   THEN /\ erp' = [erp EXCEPT ![s].exchange = exchange,
                                              ![s].raw_orders = raw_orders,
                                              ![s].response = NoOrders]
                        /\ result' = [result EXCEPT ![s] = "ok"]
                        /\ pc' = [pc EXCEPT ![s] = "done"]
                        /\ UNCHANGED imp
                   ELSE /\ erp' = [erp EXCEPT ![s].exchange = exchange,
                                              ![s].raw_orders = raw_orders,
                                              ![s].orders = valid]
                        /\ imp' = [imp EXCEPT ![s] = NewImport(valid)]
                        /\ pc' = [pc EXCEPT ![s] = "imp_supplier"]
                        /\ UNCHANGED result
    /\ UNCHANGED <<catalog, ledger, writer, locals, orders, call, view>>

\* ------------------------------------------- one import, start to end
\* get_or_create_supplier_by_name on tables no other session writes
ResolveSupplier_AlwaysCreate(w, name) ==
    [work |-> [w EXCEPT !.suppliers =
                   @ \cup {[id |-> NextId(w.suppliers), name |-> name]}],
     id |-> NextId(w.suppliers)]

ResolveSupplier(w, name) ==
    LET found == {r \in w.suppliers : Lower(r.name) = Lower(name)}
    IN  IF found # {}
        THEN [work |-> w, id |-> FirstRow(found).id]
        ELSE [work |-> [w EXCEPT !.suppliers =
                           @ \cup {[id |-> NextId(w.suppliers), name |-> name]}],
              id |-> NextId(w.suppliers)]

\* the loop of _replace_purchase_order_lines (crud.py 407-422) over the
\* lines still to do, on the session's tables and ORM state
RECURSIVE ReplaceLines(_, _)
ReplaceLines(st, lines) ==
    IF lines = <<>> THEN st
    ELSE LET line == Head(lines)
             found == {i \in st.work.items : i.sku = line.sku}
             w1 == [st.work EXCEPT !.items =
                       @ \cup {ErpItem(NextId(st.work.items), line)}]
         IN  IF found # {}
             THEN ReplaceLines(
                      [st EXCEPT !.pending = Append(@, NewLine(line, FirstRow(found).id))],
                      Tail(lines))
             ELSE ReplaceLines(
                      [Flushed(st) EXCEPT
                           !.work = FlushOrder(w1, st),
                           !.pending = Append(@, NewLine(line, NextId(st.work.items)))],
                      Tail(lines))

\* one iteration of the loop of import_purchase_orders_from_payload
\* (crud.py 369-393) when no other session writes: the tables it commits and
\* the counter it raises
ImportOne(tables, order) ==
    LET sup == ResolveSupplier(tables, order.supplier_name)
        found == {o \in sup.work.purchase_orders : o.order_number = order.order_number}
        st0 == [work |-> sup.work,
                order |-> IF found = {}
                          THEN [id |-> NoId, order_number |-> order.order_number,
                                supplier_id |-> sup.id, status |-> order.status,
                                expected_date |-> order.expected_date, notes |-> order.notes]
                          ELSE [FirstRow(found) EXCEPT
                                    !.supplier_id = sup.id, !.status = order.status,
                                    !.expected_date = order.expected_date,
                                    !.notes = order.notes],
                is_new |-> (found = {}),
                clear |-> (found # {}),
                pending |-> <<>>]
        st1 == ReplaceLines(st0, order.lines)
        st2 == [Flushed(st1) EXCEPT !.work = FlushOrder(st1.work, st1)]
        id == NextId(st2.work.purchase_orders)
    IN  [tables |-> IF st2.is_new
                    THEN [st2.work EXCEPT
                             !.purchase_orders = @ \cup {[st2.order EXCEPT !.id = id]},
                             !.purchase_order_lines = InsertLines(@, id, st2.pending)]
                    ELSE st2.work,
         outcome |-> IF st2.is_new THEN "imported" ELSE "updated"]

\* the whole call: the tables after the last order and the counters returned
RECURSIVE ImportAll(_, _)
ImportAll(tables, payload) ==
    IF payload = <<>>
    THEN [tables |-> tables, imported |-> 0, updated |-> 0, skipped |-> 0]
    ELSE LET one == ImportOne(tables, Head(payload))
             rest == ImportAll(one.tables, Tail(payload))
         IN  [rest EXCEPT
                 !.imported = @ + (IF one.outcome = "imported" THEN 1 ELSE 0),
                 !.updated = @ + (IF one.outcome = "updated" THEN 1 ELSE 0)]

\* the creates of the four business keys, requests one at a time
NextCat ==
    \/ \E s \in Sessions : Alone(s) /\ GetDb(s)
    \/ \E s \in Sessions : \E sku \in Skus : CreateItem(s, sku)
    \/ \E s \in Sessions : \E name \in LocationNames : CreateLocation(s, name)
    \/ \E s \in Sessions : \E name \in SupplierNames : CreateSupplier(s, name)
    \/ \E s \in Sessions : \E order_in \in PurchaseOrderCreate : CreatePurchaseOrder(s, order_in)
    \/ \E s \in Sessions : Close(s)

SpecCat == Init /\ [][NextCat]_vars

\* imports, deliveries and the creates of items and suppliers, requests one
\* at a time, on a store that already holds a locally created order
NextErp ==
    \/ \E s \in Sessions : Alone(s) /\ GetDb(s)
    \/ \E s \in Sessions : \E sku \in Skus : CreateItem(s, sku)
    \/ \E s \in Sessions : \E name \in SupplierNames : CreateSupplier(s, name)
    \/ \E s \in Sessions : \E line_id \in LineIds : \E q \in ReceivedInputs :
           SetLineReceived(s, line_id, q)
    \/ \E s \in Sessions : \E payload \in Payloads : ImportBegin(s, payload)
    \/ \E s \in Sessions : ImportSupplier(s)
    \/ \E s \in Sessions : ImportSupplierInsert(s)
    \/ \E s \in Sessions : ImportOrder(s)
    \/ \E s \in Sessions : ImportItem(s)
    \/ \E s \in Sessions : ImportItemInsert(s)
    \/ \E s \in Sessions : ImportFlush(s)
    \/ \E s \in Sessions : ImportCommit(s)
    \/ \E s \in Sessions : Close(s)

\* the store after create_supplier, create_item, create_purchase_order with
\* one line of the item and a delivery recorded on that line
InitErp ==
    /\ items = {ItemCreate(1, "A1")}
    /\ locations = {[id |-> 1, name |-> "Hauptlager"]}
    /\ suppliers = {[id |-> 1, name |-> "Acme"]}
    /\ purchase_orders =
           {[id |-> 1, order_number |-> "PO-1", supplier_id |-> NoId, status |-> DRAFT,
             expected_date |-> Null, notes |-> Null]}
    /\ purchase_order_lines =
           {[id |-> 1, purchase_order_id |-> 1, item_id |-> 1, description |-> Null,
             ordered_quantity |-> 5, unit_price |-> NoPrice, received_quantity |-> 3]}
    /\ stock_levels = {}
    /\ transactions = <<>>
    /\ writer = 0
    /\ pc = [s \in Sessions |-> "idle"]
    /\ req = [s \in Sessions |-> None]
    /\ stock_level = [s \in Sessions |-> None]
    /\ result = [s \in Sessions |-> "none"]
    /\ pre = [s \in Sessions |-> None]
    /\ call = [s \in Sessions |-> None]
    /\ imp = [s \in Sessions |-> None]
    /\ erp = [s \in Sessions |-> None]
    /\ view = [s \in Sessions |-> None]

SpecErp == InitErp /\ [][NextErp]_vars

\* ---------------------------------------------------------- planning view
\* the messages of the CRUDExceptions register_inventory_transaction raises
CRUDExceptions == {ErrNotFound, ErrZero, ErrReceipt, ErrShipment, ErrNegative}

\* what a query of the session returns for table stock_levels: the
\* committed rows and the row the session has flushed and not committed
SessionStockLevels(s) ==
    stock_levels \cup
        (IF stock_level[s] # None /\ stock_level[s].new
         THEN {[id |-> stock_level[s].id, item_id |-> req[s].item_id,
                location_id |-> req[s].location_id, quantity |-> stock_level[s].quantity]}
         ELSE {})

\* POST /inventory/movements (web.py 262-281): the CRUDException of
\* register_inventory_transaction is caught and the inventory page is
\* rendered with the error, from lists read through the request's session
MovementError(s) ==
    /\ pc[s] = "failed" /\ req[s] # None /\ view[s] = None
    /\ result[s] \in CRUDExceptions
    /\ view' = [view EXCEPT ![s] =
                   [stock_levels |-> SessionStockLevels(s),
                    transactions |-> transactions,
                    error |-> result[s]]]
    /\ UNCHANGED <<catalog, ledger, writer, pc, locals, result, orders, call, imp, erp>>

\* the sum of the values of a finite function
RECURSIVE Total(_)
Total(f) ==
    IF DOMAIN f = {} THEN 0
    ELSE LET x == CHOOSE x \in DOMAIN f : TRUE
         IN  f[x] + Total([y \in DOMAIN f \ {x} |-> f[y]])

\* web.py 57: the statuses show_planning passes over
ClosedStatuses == {CANCELLED, COMPLETED}
\* web.py 62-64: what is still to come on a line
OpenQuantity(line) == line.ordered_quantity - line.received_quantity
\* web.py 59-67 adding every gap, the negative ones too
OpenOrderEntry_AllGaps(order) ==
    LET lines == {l \in purchase_order_lines : l.purchase_order_id = order.id}
        outstanding == {l \in lines : OpenQuantity(l) > 0}
    IN  [order |-> order,
         remaining |-> Total([l \in lines |-> OpenQuantity(l)]),
         outstanding_lines |-> Cardinality(outstanding)]
\* web.py 59-67: the lines of an order with something still to come are
\* counted and their gaps added up
OpenOrderEntry(order) ==
    LET lines == {l \in purchase_order_lines : l.purchase_order_id = order.id}
        outstanding == {l \in lines : OpenQuantity(l) > 0}
    IN  [order |-> order,
         remaining |-> Total([l \in outstanding |-> OpenQuantity(l)]),
         outstanding_lines |-> Cardinality(outstanding)]
\* web.py 56-58, 68-69: the orders that get an entry
Listed(order) ==
    LET entry == OpenOrderEntry(order)
    IN  /\ order.status \notin ClosedStatuses
        /\ ~(entry.outstanding_lines = 0 /\ entry.remaining <= 0)
\* web.py 78-83: the sort key (expected_date or date.max, order_number); the
\* one date of the model is before date.max, and "PO-1" sorts before "PO-2"
SortKey(order) ==
    <<IF order.expected_date = Null THEN 1 ELSE 0,
      IF order.order_number = "PO-1" THEN 1 ELSE 2>>
KeyBefore(a, b) == a[1] < b[1] \/ (a[1] = b[1] /\ a[2] < b[2])
\* web.py 55-83: open_orders_data after the sort
OpenOrdersData ==
    LET entries == {OpenOrderEntry(o) : o \in {o \in purchase_orders : Listed(o)}}
    IN  CHOOSE q \in [1..Cardinality(entries) -> entries] :
            \A i, j \in DOMAIN q : i < j => KeyBefore(SortKey(q[i].order), SortKey(q[j].order))

\* crud.get_planning_overview, of which crud.py holds no definition: one
\* PlanningSuggestion per item as section 4.4 of the specification describes
\* it.  Stock is counted in halves, so every quantity of a suggestion is, and
\* the reorder level and the order quantities are doubled.
OnHand(item) ==
    Total([r \in {r \in stock_levels : r.item_id = item.id} |-> r.quantity])
OnOrder(item) ==
    LET open == {o.id : o \in {o \in purchase_orders : o.status \notin ClosedStatuses}}
        lines == {l \in purchase_order_lines :
                      /\ l.item_id = item.id /\ l.purchase_order_id \in open
                      /\ OpenQuantity(l) > 0}
    IN  Total([l \in lines |-> 2 * OpenQuantity(l)])
\* a suggestion that disregards what is on order
Suggestion_IgnoreOnOrder(item, on_hand, on_order) ==
    LET coverage_gap == 2 * item.reorder_level - on_hand
        shortfall == IF coverage_gap > 0 THEN coverage_gap ELSE 0
    IN  [item_id |-> item.id, sku |-> item.sku, name |-> item.name,
         reorder_level |-> item.reorder_level, on_hand |-> on_hand, on_order |-> on_order,
         coverage_gap |-> coverage_gap, shortfall |-> shortfall,
         suggested_order |-> shortfall, needs_reorder |-> shortfall > 0]
Suggestion(item, on_hand, on_order) ==
    LET coverage_gap == 2 * item.reorder_level - on_hand
        shortfall == IF coverage_gap - on_order > 0 THEN coverage_gap - on_order ELSE 0
    IN  [item_id |-> item.id, sku |-> item.sku, name |-> item.name,
         reorder_level |-> item.reorder_level, on_hand |-> on_hand, on_order |-> on_order,
         coverage_gap |-> coverage_gap, shortfall |-> shortfall,
         suggested_order |-> shortfall, needs_reorder |-> shortfall > 0]
get_planning_overview == {Suggestion(i, OnHand(i), OnOrder(i)) : i \in items}

\* GET /planning (web.py 45-101): the suggestions, the monitored and the
\* short items, the open orders and the summary handed to the template
ShowPlanning(s) ==
    /\ pc[s] = "ready"
    /\ call' = [call EXCEPT ![s] = [op |-> "show_planning", key |-> Null]]
    /\ LET suggestions == get_planning_overview
           monitored == {e \in suggestions : e.reorder_level > 0}
           needs_reorder == {e \in monitored : e.needs_reorder}
           open_orders == OpenOrdersData
       IN  view' = [view EXCEPT ![s] =
               [suggestions |-> suggestions,
                open_orders |-> open_orders,
                summary |->
                    [total_items |-> IF monitored # {} THEN Cardinality(monitored)
                                     ELSE Cardinality(suggestions),
                     needs_reorder |-> Cardinality(needs_reorder),
                     recommended_quantity |->
                         Total([e \in needs_reorder |-> e.suggested_order]),
                     open_orders |-> Len(open_orders)]]]
    /\ result' = [result EXCEPT ![s] = "ok"]
    /\ pc' = [pc EXCEPT ![s] = "done"]
    /\ UNCHANGED <<catalog, ledger, writer, locals, orders, imp, erp>>

\* the purchase-order calls, requests one at a time, on a store with an
\* item in stock, a receipt in the log, and an order with a line of that item
\* on which a delivery was recorded.  An order is created with up to two
\* lines, updated and given more lines; item 2 does not exist.
OrdCreates ==
    {[order_number |-> n, supplier_id |-> NoId, status |-> DRAFT,
      expected_date |-> Null, notes |-> Null, lines |-> ls] :
        n \in OrderNumbers, ls \in SeqsUpTo(PurchaseOrderLineCreate, 2)}
OrdReceived == {0 - 1, 0, 3, 7}

NextOrd ==
    \/ \E s \in Sessions : Alone(s) /\ GetDb(s)
    \/ \E s \in Sessions : \E order_in \in OrdCreates : CreatePurchaseOrder(s, order_in)
    \/ \E s \in Sessions : \E order_id \in OrderIds : \E order_in \in PurchaseOrderUpdate :
           UpdatePurchaseOrder(s, order_id, order_in)
    \/ \E s \in Sessions : \E order_id \in OrderIds : \E line_in \in PurchaseOrderLineCreate :
           AddPurchaseOrderLine(s, order_id, line_in)
    \/ \E s \in Sessions : Close(s)

InitOrd ==
    /\ items = {ItemCreate(1, "A1")}
    /\ locations = {[id |-> 1, name |-> "Hauptlager"]}
    /\ suppliers = {[id |-> 1, name |-> "Acme"]}
    /\ purchase_orders =
           {[id |-> 1, order_number |-> "PO-1", supplier_id |-> NoId, status |-> DRAFT,
             expected_date |-> Null, notes |-> Null]}
    /\ purchase_order_lines =
           {[id |-> 1, purchase_order_id |-> 1, item_id |-> 1, description |-> Null,
             ordered_quantity |-> 5, unit_price |-> NoPrice, received_quantity |-> 3]}
    /\ stock_levels = {[id |-> 1, item_id |-> 1, location_id |-> 1, quantity |-> 2]}
    /\ transactions =
           <<NewTransaction(1, [item_id |-> 1, location_id |-> 1, quantity |-> 2,
                                transaction_type |-> RECEIPT])>>
    /\ writer = 0
    /\ pc = [s \in Sessions |-> "idle"]
    /\ req = [s \in Sessions |-> None]
    /\ stock_level = [s \in Sessions |-> None]
    /\ result = [s \in Sessions |-> "none"]
    /\ pre = [s \in Sessions |-> None]
    /\ call = [s \in Sessions |-> None]
    /\ imp = [s \in Sessions |-> None]
    /\ erp = [s \in Sessions |-> None]
    /\ view = [s \in Sessions |-> None]

SpecOrd == InitOrd /\ [][NextOrd]_vars

\* deliveries recorded on the lines of that store, and lines added to its
\* order, requests one at a time
NextRecv ==
    \/ \E s \in Sessions : Alone(s) /\ GetDb(s)
    \/ \E s \in Sessions : \E line_in \in PurchaseOrderLineCreate :
           AddPurchaseOrderLine(s, 1, line_in)
    \/ \E s \in Sessions : \E line_id \in LineIds : \E received_quantity \in OrdReceived :
           SetLineReceived(s, line_id, received_quantity)
    \/ \E s \in Sessions : Close(s)

SpecRecv == InitOrd /\ [][NextRecv]_vars

\* the catalog and ledger calls, one request at a time, with movements
\* entered through the web form, whose failures render the inventory page
NextMove ==
    \/ Next
    \/ \E s \in Sessions : MovementError(s)

SpecMove == Init /\ [][NextMove]_vars

\* the planning view beside deliveries recorded on lines and status changes,
\* requests one at a time.  The store holds item A1 with a reorder level of
\* 0, 5 or 20 and nothing, 3.0 or 3.0 + 2.0 in stock at two locations, item B2
\* as an import created it, a draft order with a line of 5 of A1, and a
\* released order with a line of 8 of A1, 3 of them delivered, and a
\* line of 5 of B2.
PlanReorderLevels == {0, 5, 20}
PlanStock ==
    <<[id |-> 1, item_id |-> 1, location_id |-> 1, quantity |-> 6],
      [id |-> 2, item_id |-> 1, location_id |-> 2, quantity |-> 4]>>
PlanUpdates == {[status |-> st] : st \in PurchaseOrderStatus}
PlanReceived == {0, 3, 7}

InitPlan ==
    /\ \E rl \in PlanReorderLevels :
           items = {[ItemCreate(1, "A1") EXCEPT !.reorder_level = rl], ErpItem(2, NutLine)}
    /\ locations = {[id |-> 1, name |-> "Hauptlager"], [id |-> 2, name |-> "Regal"]}
    /\ \E k \in 0..Len(PlanStock) :
           /\ stock_levels = {PlanStock[i] : i \in 1..k}
           /\ transactions =
                  [i \in 1..k |->
                      NewTransaction(i, [item_id |-> PlanStock[i].item_id,
                                         location_id |-> PlanStock[i].location_id,
                                         quantity |-> PlanStock[i].quantity,
                                         transaction_type |-> RECEIPT])]
    /\ suppliers = {[id |-> 1, name |-> "Acme"]}
    /\ purchase_orders =
           {[id |-> 1, order_number |-> "PO-1", supplier_id |-> NoId, status |-> DRAFT,
             expected_date |-> Null, notes |-> Null],
            [id |-> 2, order_number |-> "PO-2", supplier_id |-> 1, status |-> RELEASED,
             expected_date |-> "2024-05-01", notes |-> Null]}
    /\ purchase_order_lines =
           {[id |-> 1, purchase_order_id |-> 1, item_id |-> 1, description |-> Null,
             ordered_quantity |-> 5, unit_price |-> NoPrice, received_quantity |-> 0],
            [id |-> 2, purchase_order_id |-> 2, item_id |-> 1, description |-> Null,
             ordered_quantity |-> 8, unit_price |-> NoPrice, received_quantity |-> 3],
            [id |-> 3, purchase_order_id |-> 2, item_id |-> 2, description |-> "M8",
             ordered_quantity |-> 5, unit_price |-> NoPrice, received_quantity |-> 0]}
    /\ writer = 0
    /\ pc = [s \in Sessions |-> "idle"]
    /\ req = [s \in Sessions |-> None]
    /\ stock_level = [s \in Sessions |-> None]
    /\ result = [s \in Sessions |-> "none"]
    /\ pre = [s \in Sessions |-> None]
    /\ call = [s \in Sessions |-> None]
    /\ imp = [s \in Sessions |-> None]
    /\ erp = [s \in Sessions |-> None]
    /\ view = [s \in Sessions |-> None]

NextPlan ==
    \/ \E s \in Sessions : Alone(s) /\ GetDb(s)
    \/ \E s \in Sessions : ShowPlanning(s)
    \/ \E s \in Sessions : \E line_id \in LineIds : \E received_quantity \in PlanReceived :
           SetLineReceived(s, line_id, received_quantity)
    \/ \E s \in Sessions : \E order_id \in OrderIds : \E order_in \in PlanUpdates :
           UpdatePurchaseOrder(s, order_id, order_in)
    \/ \E s \in Sessions : Close(s)

SpecPlan == InitPlan /\ [][NextPlan]_vars

\* ------------------------------------------------------------ dashboard
\* ORDER BY items.name (crud.py 218) compares the names byte by byte, SQLite's
\* BINARY collation: the rank of each name of the model in that order
NameRank(name) ==
    CASE name = "A1" -> 1
      [] name = "B2" -> 2
      [] name = "Bolt" -> 3
      [] name = "Nut" -> 4
      [] name = "Schraube" -> 5

\* crud.py 212-215: the quantity column of the grouped outer join, the sum of
\* the item's StockLevel rows and, by the coalesce, 0 for an item without one
SummedQuantity(item) ==
    Total([r \in {r \in stock_levels : r.item_id = item.id} |-> r.quantity])

\* the low-stock query with an inner join, which has no group for an item
\* without StockLevel rows
LowStockRows_InnerJoin ==
    {[item_id |-> i.id, sku |-> i.sku, name |-> i.name,
      quantity |-> SummedQuantity(i), reorder_level |-> i.reorder_level] :
        i \in {i \in items : /\ \E r \in stock_levels : r.item_id = i.id
                             /\ SummedQuantity(i) <= 2 * i.reorder_level}}
\* crud.py 209-229: the rows of the low-stock query, one per item whose
\* summed quantity is at most its reorder level.  Stock is counted in halves,
\* so the quantity of a row is, and the reorder level is doubled to compare.
LowStockRows ==
    {[item_id |-> i.id, sku |-> i.sku, name |-> i.name,
      quantity |-> SummedQuantity(i), reorder_level |-> i.reorder_level] :
        i \in {i \in items : SummedQuantity(i) <= 2 * i.reorder_level}}

\* crud.py 218: the orders in which the database may return those rows; rows
\* of the same name come in an order the query does not fix
OrderedByName(rows) ==
    {q \in [1..Cardinality(rows) -> rows] :
        /\ \A i, j \in DOMAIN q : i # j => q[i] # q[j]
        /\ \A i, j \in DOMAIN q : i < j => NameRank(q[i].name) <= NameRank(q[j].name)}

\* crud.list_transactions (crud.py 189-196): the newest transactions first,
\* limit of them at most
ListTransactions(limit) ==
    LET n == Len(transactions)
        m == IF n < limit THEN n ELSE limit
    IN  [k \in 1..m |-> transactions[n + 1 - k]]

\* GET /dashboard (api/inventory.py 37-39) and the dashboard page (web.py
\* 28-42), crud.get_inventory_overview: the counts, the low-stock list and
\* the ten newest transactions
GetInventoryOverview(s) ==
    /\ pc[s] = "ready"
    /\ call' = [call EXCEPT ![s] = [op |-> "get_inventory_overview", key |-> Null]]
    /\ \E low_stock \in OrderedByName(LowStockRows) :
           view' = [view EXCEPT ![s] =
               [total_items |-> Cardinality(items),
                total_quantity |-> Total([r \in stock_levels |-> r.quantity]),
                open_orders |-> Cardinality({o \in purchase_orders : o.status # COMPLETED}),
                low_stock |-> low_stock,
                recent_transactions |-> ListTransactions(10)]]
    /\ result' = [result EXCEPT ![s] = "ok"]
    /\ pc' = [pc EXCEPT ![s] = "done"]
    /\ UNCHANGED <<catalog, ledger, writer, locals, orders, imp, erp>>

\* the dashboard beside stock movements and new items, requests one at a
\* time, on the store of the planning page
NextDash ==
    \/ \E s \in Sessions : Alone(s) /\ GetDb(s)
    \/ \E s \in Sessions : GetInventoryOverview(s)
    \/ \E s \in Sessions : \E transaction_in \in InventoryTransactionCreate : Lookup(s, transaction_in)
    \/ \E s \in Sessions : SelectStock(s)
    \/ \E s \in Sessions : Flush(s)
    \/ \E s \in Sessions : Apply(s)
    \/ \E s \in Sessions : Commit(s)
    \/ \E s \in Sessions : Close(s)

SpecDash == InitPlan /\ [][NextDash]_vars

\* deletions of items, lines added to the order and deliveries recorded on
\* them, requests one at a time.  The store holds item A1 with stock, its
\* receipt and a line on the draft order, and item B2 with stock and its
\* receipt and no line.
InitDel ==
    /\ items = {ItemCreate(1, "A1"), ItemCreate(2, "B2")}
    /\ locations = {[id |-> 1, name |-> "Hauptlager"]}
    /\ suppliers = {[id |-> 1, name |-> "Acme"]}
    /\ purchase_orders =
           {[id |-> 1, order_number |-> "PO-1", supplier_id |-> NoId, status |-> DRAFT,
             expected_date |-> Null, notes |-> Null]}
    /\ purchase_order_lines =
           {[id |-> 1, purchase_order_id |-> 1, item_id |-> 1, description |-> Null,
             ordered_quantity |-> 5, unit_price |-> NoPrice, received_quantity |-> 3]}
    /\ stock_levels = {[id |-> 1, item_id |-> 1, location_id |-> 1, quantity |-> 2],
                       [id |-> 2, item_id |-> 2, location_id |-> 1, quantity |-> 4]}
    /\ transactions =
           <<NewTransaction(1, [item_id |-> 1, location_id |-> 1, quantity |-> 2,
                                transaction_type |-> RECEIPT]),
             NewTransaction(2, [item_id |-> 2, location_id |-> 1, quantity |-> 4,
                                transaction_type |-> RECEIPT])>>
    /\ writer = 0
    /\ pc = [s \in Sessions |-> "idle"]
    /\ req = [s \in Sessions |-> None]
    /\ stock_level = [s \in Sessions |-> None]
    /\ result = [s \in Sessions |-> "none"]
    /\ pre = [s \in Sessions |-> None]
    /\ call = [s \in Sessions |-> None]
    /\ imp = [s \in Sessions |-> None]
    /\ erp = [s \in Sessions |-> None]
    /\ view = [s \in Sessions |-> None]

NextDel ==
    \/ \E s \in Sessions : Alone(s) /\ GetDb(s)
    \/ \E s \in Sessions : \E item_id \in ItemIds : DeleteItem(s, item_id)
    \/ \E s \in Sessions : \E line_in \in PurchaseOrderLineCreate :
           AddPurchaseOrderLine(s, 1, line_in)
    \/ \E s \in Sessions : \E line_id \in LineIds : \E received_quantity \in OrdReceived :
           SetLineReceived(s, line_id, received_quantity)
    \/ \E s \in Sessions : Close(s)

SpecDel == InitDel /\ [][NextDel]_vars

\* snapshot exports beside each other and beside the deletion of items: the
\* item without a line leaves the snapshot, the item with a line stays
NextPush ==
    \/ \E s \in Sessions : GetDb(s)
    \/ \E s \in Sessions : \E base_url \in ErpBaseUrls : PushInventorySnapshot(s, base_url)
    \/ \E s \in Sessions : \E exchange \in PushExchanges : PushReply(s, exchange)
    \/ \E s \in Sessions : \E item_id \in ItemIds : DeleteItem(s, item_id)
    \/ \E s \in Sessions : Close(s)

SpecPush == InitDel /\ [][NextPush]_vars

\* syncs with the ERP, requests one at a time, on the store of InitErp
NextSync ==
    \/ \E s \in Sessions : Alone(s) /\ GetDb(s)
    \/ \E s \in Sessions : \E base_url \in ErpBaseUrls : SyncPurchaseOrders(s, base_url)
    \/ \E s \in Sessions : \E exchange \in FetchExchanges : FetchReply(s, exchange)
    \/ \E s \in Sessions : ImportSupplier(s)
    \/ \E s \in Sessions : ImportSupplierInsert(s)
    \/ \E s \in Sessions : ImportOrder(s)
    \/ \E s \in Sessions : ImportItem(s)
    \/ \E s \in Sessions : ImportItemInsert(s)
    \/ \E s \in Sessions : ImportFlush(s)
    \/ \E s \in Sessions : ImportCommit(s)
    \/ \E s \in Sessions : Close(s)

SpecSync == InitErp /\ [][NextSync]_vars

\* imports of one order each and local creates of suppliers, requests one at
\* a time, with supplier names that have a letter outside ASCII
NameOrders ==
    {[order_number |-> n, supplier_name |-> name, status |-> RELEASED,
      expected_date |-> Null, notes |-> Null, lines |-> <<BoltLine>>] :
        n \in OrderNumbers, name \in {"ACME", "Bolt", "MÜLLER"}}
NextName ==
    \/ \E s \in Sessions : Alone(s) /\ GetDb(s)
    \/ \E s \in Sessions : \E name \in SupplierNames \cup UmlautNames : CreateSupplier(s, name)
    \/ \E s \in Sessions : \E order \in NameOrders : ImportBegin(s, <<order>>)
    \/ \E s \in Sessions : ImportSupplier(s)
    \/ \E s \in Sessions : ImportSupplierInsert(s)
    \/ \E s \in Sessions : ImportOrder(s)
    \/ \E s \in Sessions : ImportItem(s)
    \/ \E s \in Sessions : ImportFlush(s)
    \/ \E s \in Sessions : ImportCommit(s)
    \/ \E s \in Sessions : Close(s)

SpecName == InitErp /\ [][NextName]_vars

\* an import while another request creates items, suppliers and orders: the
\* requests overlap, session Importer runs imports step by step and session
\* Clerk the local creates (each one transaction, SQLite's one writer at a
\* time).  The feed sends orders of the supplier the store does not know yet,
\* the clerk's orders have no lines.
Importer == CHOOSE s \in Sessions : \A o \in Sessions : s <= o
Clerk == CHOOSE s \in Sessions : s # Importer
ConcPayloads == {p \in Payloads : \A i \in 1..Len(p) : p[i].supplier_name = "Bolt"}
ConcOrders == {o \in PurchaseOrderCreate : o.lines = <<>> /\ o.supplier_id = NoId}
NextErpConc ==
    \/ \E s \in Sessions : GetDb(s)
    \/ \E sku \in Skus : CreateItem(Clerk, sku)
    \/ \E name \in SupplierNames : CreateSupplier(Clerk, name)
    \/ \E order_in \in ConcOrders : CreatePurchaseOrder(Clerk, order_in)
    \/ \E payload \in ConcPayloads : ImportBegin(Importer, payload)
    \/ ImportSupplier(Importer)
    \/ ImportSupplierInsert(Importer)
    \/ ImportOrder(Importer)
    \/ ImportItem(Importer)
    \/ ImportItemInsert(Importer)
    \/ ImportFlush(Importer)
    \/ ImportCommit(Importer)
    \/ \E s \in Sessions : Close(s)

SpecErpConc == InitErp /\ [][NextErpConc]_vars

\* exports and syncs that overlap with each other and with deliveries the
\* other session records: session Importer syncs, every session exports, and
\* session Clerk records deliveries while the others wait for the ERP
IoFeeds == {<<>>, <<RawBolt>>, <<RawBadLine, RawAcme>>}
IoExchanges ==
    {[raise |-> "ReadTimeout"]} \cup {[data |-> [kind |-> "list", orders |-> f]] : f \in IoFeeds}
NextIo ==
    \/ \E s \in Sessions : GetDb(s)
    \/ \E s \in Sessions : \E base_url \in ErpBaseUrls : PushInventorySnapshot(s, base_url)
    \/ \E s \in Sessions : \E exchange \in PushExchanges : PushReply(s, exchange)
    \/ \E base_url \in ErpBaseUrls : SyncPurchaseOrders(Importer, base_url)
    \/ \E exchange \in IoExchanges : FetchReply(Importer, exchange)
    \/ ImportSupplier(Importer)
    \/ ImportSupplierInsert(Importer)
    \/ ImportOrder(Importer)
    \/ ImportItem(Importer)
    \/ ImportItemInsert(Importer)
    \/ ImportFlush(Importer)
    \/ ImportCommit(Importer)
    \/ \E line_id \in LineIds : \E received_quantity \in ReceivedInputs :
           SetLineReceived(Clerk, line_id, received_quantity)
    \/ \E s \in Sessions : Close(s)

SpecIo == InitOrd /\ [][NextIo]_vars

\* =================================================================
\* Properties of register_inventory_transaction
\* =================================================================
\* the session has a register_inventory_transaction call under way or ended
Registering(s) == req[s] # None
Succeeded(s) == Registering(s) /\ pc[s] = "done" /\ result[s] = "ok"
Failed(s) == Registering(s) /\ pc[s] = "failed"
Ended(s) == Succeeded(s) \/ Failed(s)
Known(s) == ItemExists(req[s].item_id) /\ LocationExists(req[s].location_id)
\* committed stock of the call's pair before the call and now
Prior(s) == StockOf(pre[s].stock_levels, req[s].item_id, req[s].location_id)
Current(s) == StockOf(stock_levels, req[s].item_id, req[s].location_id)
LedgerUntouched(s) ==
    stock_levels = pre[s].stock_levels /\ transactions = pre[s].transactions
Appended(s) ==
    /\ Len(transactions) = Len(pre[s].transactions) + 1
    /\ SubSeq(transactions, 1, Len(pre[s].transactions)) = pre[s].transactions
LastTx == transactions[Len(transactions)]

\* C1: after any sequence of register_inventory_transaction calls, successful
\* or failing, every StockLevel row (committed, or held by a session) has
\* quantity >= 0.
C1_StockNeverNegative ==
    /\ \A r \in stock_levels : r.quantity >= 0
    /\ \A s \in Sessions : stock_level[s] # None => stock_level[s].quantity >= 0

\* a shipment above the stock of a stocked pair was refused
C1_Witness ==
    \E s \in Sessions :
        /\ Failed(s) /\ result[s] = ErrNegative
        /\ req[s].transaction_type = SHIPMENT
        /\ Prior(s) > 0 /\ req[s].quantity > Prior(s)

\* C2: for an existing item and location, a SHIPMENT of q > 0 succeeds exactly
\* when prior stock >= q and then leaves prior - q; when q > prior stock it
\* fails with an error, the stock is unchanged and no transaction is appended.
C2_Shipment ==
    \A s \in Sessions :
        (Ended(s) /\ Known(s) /\ req[s].transaction_type = SHIPMENT /\ req[s].quantity > 0) =>
            /\ Succeeded(s) <=> Prior(s) >= req[s].quantity
            /\ Succeeded(s) => Current(s) = Prior(s) - req[s].quantity
            /\ Failed(s) => result[s] = ErrNegative /\ LedgerUntouched(s)

\* a shipment of exactly the prior stock succeeded and left 0
C2_Witness ==
    \E s \in Sessions :
        /\ Succeeded(s) /\ req[s].transaction_type = SHIPMENT
        /\ Prior(s) = req[s].quantity /\ Current(s) = 0

\* C3: for an existing item and location, a RECEIPT of q > 0 never fails, sets
\* the pair's stock to prior + q (prior being 0 without a row) and appends one
\* transaction with quantity q and type RECEIPT.
C3_Receipt ==
    \A s \in Sessions :
        (Registering(s) /\ Known(s) /\ req[s].transaction_type = RECEIPT /\ req[s].quantity > 0) =>
            /\ ~Failed(s)
            /\ Succeeded(s) =>
                /\ Current(s) = Prior(s) + req[s].quantity
                /\ Appended(s)
                /\ LastTx.quantity = req[s].quantity
                /\ LastTx.transaction_type = RECEIPT
                /\ LastTx.item_id = req[s].item_id
                /\ LastTx.location_id = req[s].location_id

\* a receipt succeeded on a pair whose row an earlier receipt had created
C3_Witness ==
    \E s \in Sessions :
        /\ Succeeded(s) /\ req[s].transaction_type = RECEIPT
        /\ pre[s].transactions # <<>> /\ Prior(s) > 0
        /\ Current(s) = Prior(s) + req[s].quantity

\* C4: for an existing item and location, an ADJUSTMENT of d # 0 succeeds
\* exactly when prior + d >= 0 and then leaves prior + d; otherwise it fails,
\* the stock is unchanged and no transaction is appended.
C4_Adjustment ==
    \A s \in Sessions :
        (Ended(s) /\ Known(s) /\ req[s].transaction_type = ADJUSTMENT /\ req[s].quantity # 0) =>
            /\ Succeeded(s) <=> Prior(s) + req[s].quantity >= 0
            /\ Succeeded(s) => Current(s) = Prior(s) + req[s].quantity
            /\ Failed(s) => result[s] = ErrNegative /\ LedgerUntouched(s)

\* a negative adjustment took a stocked pair down to exactly 0
C4_Witness ==
    \E s \in Sessions :
        /\ Succeeded(s) /\ req[s].transaction_type = ADJUSTMENT
        /\ req[s].quantity < 0 /\ Prior(s) > 0 /\ Current(s) = 0

\* the signed change a recorded transaction stands for
Effect(t) == IF t.transaction_type = SHIPMENT THEN 0 - t.quantity ELSE t.quantity

\* C5: the quantity stored in every recorded transaction equals the signed
\* change applied to the stock level (new stock minus prior stock): +q for a
\* RECEIPT, -q for a SHIPMENT, the raw signed input for an ADJUSTMENT.
C5_StoredQuantityIsAppliedDelta ==
    \A s \in Sessions :
        Succeeded(s) => LastTx.quantity = Current(s) - Prior(s)

\* C6: when two calls on the same (item, location) run concurrently and both
\* succeed, the final stock is the prior stock plus both applied deltas, and
\* it is not below 0.
C6_NoLostUpdate ==
    \A s, o \in Sessions :
        (s # o /\ Succeeded(s) /\ Succeeded(o) /\ pre[s] = pre[o]
             /\ req[s].item_id = req[o].item_id
             /\ req[s].location_id = req[o].location_id) =>
            /\ Current(s) = Prior(s) + Effect(req[s]) + Effect(req[o])
            /\ Current(s) >= 0

\* C7: register_inventory_transaction is atomic.  A step changes the committed
\* ledger only as the commit of one call, which publishes that call's stock
\* level and its transaction record together; a step by which a call fails,
\* and the close that follows, commit neither.
C7_Atomic ==
    [][ /\ (stock_levels' # stock_levels \/ transactions' # transactions) =>
              \E s \in Sessions :
                  /\ pc[s] = "applied" /\ pc'[s] = "done" /\ result'[s] = "ok"
                  /\ Len(transactions') = Len(transactions) + 1
                  /\ transactions' = Append(transactions, LastTx')
                  /\ LastTx'.item_id = req[s].item_id
                  /\ LastTx'.location_id = req[s].location_id
                  /\ LastTx'.transaction_type = req[s].transaction_type
                  /\ Cardinality(StockRows(stock_levels', req[s].item_id, req[s].location_id)) = 1
                  /\ StockOf(stock_levels', req[s].item_id, req[s].location_id)
                         = stock_level[s].quantity
        /\ \A s \in Sessions :
              (pc'[s] # pc[s] /\ (pc'[s] = "failed" \/ pc[s] = "failed")) =>
                  (stock_levels' = stock_levels /\ transactions' = transactions)
      ]_vars

\* a call failed on the stock check while the other session's call, begun
\* before it ended, committed
C7_Witness ==
    \E s, o \in Sessions :
        /\ s # o
        /\ Failed(s) /\ result[s] = ErrNegative
        /\ Succeeded(o)
        /\ transactions # pre[s].transactions

\* rows of the committed table other than the call's pair
OtherRows(rows, s) == rows \ StockRows(rows, req[s].item_id, req[s].location_id)

\* C8: a successful call changes the quantity of exactly one StockLevel row,
\* the one of its (item, location), and appends exactly one transaction;
\* every other row and every earlier transaction is unchanged.
C8_Frame ==
    \A s \in Sessions :
        Succeeded(s) =>
            /\ OtherRows(stock_levels, s) = OtherRows(pre[s].stock_levels, s)
            /\ Cardinality(StockRows(stock_levels, req[s].item_id, req[s].location_id)) = 1
            /\ Current(s) # Prior(s)
            /\ Appended(s)

\* a call succeeded on one location of an item that is stocked at another
C8_Witness ==
    \E s \in Sessions :
        /\ Succeeded(s)
        /\ pre[s].transactions # <<>>
        /\ \E r \in OtherRows(stock_levels, s) : r.item_id = req[s].item_id /\ r.quantity > 0

\* C9: a call with quantity 0 fails with an error for every transaction type
\* and leaves the stock quantities, the set of StockLevel rows and the number
\* of transactions unchanged.
C9_ZeroQuantity ==
    \A s \in Sessions :
        (Registering(s) /\ req[s].quantity = 0) =>
            /\ Failed(s)
            /\ result[s] \in {ErrZero, ErrNotFound}
            /\ Known(s) => result[s] = ErrZero
            /\ LedgerUntouched(s)
            /\ stock_level[s] = None

\* a zero quantity was refused for an existing item and location with stock
C9_Witness ==
    \E s \in Sessions :
        /\ Failed(s) /\ Known(s) /\ req[s].quantity = 0
        /\ result[s] = ErrZero /\ Prior(s) > 0

\* C10: a call naming an item id or a location id that does not exist fails
\* with an error and creates no StockLevel row and no transaction, whatever
\* the quantity and type.
C10_UnknownItemOrLocation ==
    \A s \in Sessions :
        (Registering(s) /\ ~Known(s)) =>
            /\ Failed(s)
            /\ result[s] = ErrNotFound
            /\ LedgerUntouched(s)
            /\ stock_level[s] = None

\* a non-zero movement was refused for an existing item at an unknown location
C10_Witness ==
    \E s \in Sessions :
        /\ Failed(s) /\ result[s] = ErrNotFound
        /\ ItemExists(req[s].item_id) /\ ~LocationExists(req[s].location_id)
        /\ req[s].quantity # 0 /\ stock_levels # {}

\* C11: for an existing item and location, a RECEIPT or a SHIPMENT with a
\* negative quantity fails with the error of its type; the stock is unchanged
\* and no transaction is appended.
C11_NegativeReceiptOrShipment ==
    \A s \in Sessions :
        (Registering(s) /\ Known(s) /\ req[s].quantity < 0
             /\ req[s].transaction_type \in {RECEIPT, SHIPMENT}) =>
            /\ ~Succeeded(s)
            /\ Failed(s) =>
                /\ result[s] = (IF req[s].transaction_type = RECEIPT
                                THEN ErrReceipt ELSE ErrShipment)
                /\ LedgerUntouched(s)
                /\ Current(s) = Prior(s)

\* a negative shipment was refused on a stocked pair, and a negative receipt
\* on a pair no transaction had touched
C11_Witness ==
    \E s \in Sessions :
        /\ Failed(s) /\ Known(s) /\ req[s].quantity < 0
        /\ \/ req[s].transaction_type = SHIPMENT /\ result[s] = ErrShipment /\ Prior(s) > 0
           \/ /\ req[s].transaction_type = RECEIPT /\ result[s] = ErrReceipt
              /\ stock_level[s] # None /\ stock_level[s].new

\* C12: after any sequence of operations there is at most one StockLevel row
\* per (item, location), and the row of a pair is created with quantity 0 by
\* the first transaction that touches the pair, before that transaction's
\* delta is applied.
C12_OneRowPerPair ==
    /\ \A r, o \in stock_levels :
           (r.item_id = o.item_id /\ r.location_id = o.location_id) => r = o
    /\ \A r, o \in stock_levels : r.id = o.id => r = o
    /\ \A s \in Sessions :
           (stock_level[s] # None /\ stock_level[s].new) =>
               /\ pc[s] = "loaded" => stock_level[s].quantity = 0
               /\ pc[s] \in {"applied", "done"} =>
                      stock_level[s].quantity = Effect(req[s])
               /\ Succeeded(s) =>
                      \E r \in stock_levels :
                          /\ r.id = stock_level[s].id
                          /\ r.item_id = req[s].item_id
                          /\ r.location_id = req[s].location_id
                          /\ r \notin pre[s].stock_levels

\* two calls raced for the first touch of a pair: one committed the pair's
\* row, the other's INSERT was refused by the unique constraint
C12_Witness ==
    \E s, o \in Sessions :
        /\ s # o
        /\ Succeeded(o) /\ stock_level[o].new
        /\ Failed(s) /\ result[s] = ErrIntegrity
        /\ pre[s].stock_levels = {}
        /\ Cardinality(StockRows(stock_levels, req[s].item_id, req[s].location_id)) = 1

\* the recorded transactions, whatever their position in the table
Recorded(rows) == {rows[i] : i \in 1..Len(rows)}

\* C13 as stated: the transaction log is append-only; once a transaction is
\* recorded, no later operation changes its fields or removes it.
C13_AppendOnly ==
    [][\A i \in 1..Len(transactions) :
           i <= Len(transactions') /\ transactions'[i] = transactions[i]]_vars

\* C13 as the code has it: no operation changes the fields of a recorded
\* transaction, and none removes one except delete_item, which removes
\* exactly the transactions of the item it deletes; every other step leaves
\* the log as it was or appends to it.
C13_AppendOnlyButDeleteItem ==
    [][ /\ \A t \in Recorded(transactions) :
              \/ t \in Recorded(transactions')
              \/ ItemExists(t.item_id) /\ ~ItemExists(t.item_id)'
        /\ \A t \in Recorded(transactions) :
              (ItemExists(t.item_id) /\ ~ItemExists(t.item_id)') =>
                  t \notin Recorded(transactions')
        /\ (items' \subseteq items /\ items' # items) =>
              transactions' = SelectSeq(transactions, LAMBDA t : ItemExists(t.item_id)')
        /\ ~(items' \subseteq items /\ items' # items) =>
              \A i \in 1..Len(transactions) :
                  i <= Len(transactions') /\ transactions'[i] = transactions[i]
      ]_vars

\* an item was deleted and took its transactions out of the log while a
\* transaction of another item, recorded later, is still there
C13_Witness ==
    /\ Len(transactions) = 1
    /\ transactions[1].id > 1
    /\ ItemExists(transactions[1].item_id)
    /\ \E s \in Sessions :
           /\ call[s] # None /\ call[s].op = "delete_item"
           /\ pc[s] = "done" /\ ~ItemExists(call[s].key)

\* the business key a create call names is already in its table
KeyExists(c) ==
    \/ c.op = "create_item" /\ \E i \in items : i.sku = c.key
    \/ c.op = "create_location" /\ \E l \in locations : l.name = c.key
    \/ c.op = "create_supplier" /\ \E r \in suppliers : r.name = c.key
    \/ c.op = "create_purchase_order" /\ \E o \in purchase_orders : o.order_number = c.key
\* the CRUDException of a create call for a key that exists
Conflict(c) ==
    IF c.op = "create_item" THEN ErrSku
    ELSE IF c.op = "create_location" THEN ErrLocation
    ELSE IF c.op = "create_supplier" THEN ErrSupplier
    ELSE ErrOrderNumber

\* C14: create_item, create_location, create_supplier and
\* create_purchase_order called with a business key that already exists fail
\* with the CRUDException of the key, create no row and leave every existing
\* row unchanged.
C14_DuplicateKey ==
    [][\A s \in Sessions :
           (pc[s] = "ready" /\ pc'[s] # "ready" /\ call'[s] # None /\ KeyExists(call'[s])) =>
               /\ pc'[s] = "failed"
               /\ result'[s] = Conflict(call'[s])
               /\ items' = items /\ locations' = locations /\ suppliers' = suppliers
               /\ purchase_orders' = purchase_orders
               /\ purchase_order_lines' = purchase_order_lines
      ]_vars

\* a second create_purchase_order for an order number was refused while the
\* store holds an item, a second location, a supplier and the first order
\* with its line
C14_Witness ==
    \E s \in Sessions :
        /\ pc[s] = "failed" /\ call[s] # None
        /\ call[s].op = "create_purchase_order" /\ result[s] = ErrOrderNumber
        /\ Cardinality({o \in purchase_orders : o.order_number = call[s].key}) = 1
        /\ purchase_order_lines # {} /\ items # {} /\ suppliers # {}
        /\ Cardinality(locations) > 1

\* =================================================================
\* Properties of the ERP import
\* =================================================================
\* no two rows of a table share the value of a column
UniqueBy(rows, Key(_)) == \A r, o \in rows : Key(r) = Key(o) => r = o
SkuOf(r) == r.sku
NameOf(r) == r.name
OrderNumberOf(r) == r.order_number
IdOf(r) == r.id
\* the session has finished an import
Imported(s) == imp[s] # None /\ pc[s] = "done"

\* C15: after any sequence of local creates and ERP imports, also of batches
\* that name an order number or an unseen sku more than once, no two items
\* share a sku, no two purchase orders an order_number, no two locations a
\* name and no two suppliers a name.
C15_UniqueKeys ==
    /\ UniqueBy(items, SkuOf) /\ UniqueBy(items, IdOf)
    /\ UniqueBy(purchase_orders, OrderNumberOf) /\ UniqueBy(purchase_orders, IdOf)
    /\ UniqueBy(locations, NameOf) /\ UniqueBy(locations, IdOf)
    /\ UniqueBy(suppliers, NameOf) /\ UniqueBy(suppliers, IdOf)
    /\ UniqueBy(purchase_order_lines, IdOf)

\* an import finished whose two orders carried the same new order number,
\* the second with two lines of a sku no item had; the store also holds
\* two suppliers whose names differ in case only
C15_Witness ==
    \E s \in Sessions :
        /\ Imported(s) /\ Len(imp[s].seen) = 2
        /\ imp[s].seen[1].order_number = imp[s].seen[2].order_number
        /\ imp[s].seen[1].order_number = "PO-2"
        /\ imp[s].seen[2].lines = <<NutLine, NutLine>>
        /\ ~\E i \in imp[s].last.before.items : i.sku = "B2"
        /\ \E i \in items : i.sku = "B2"
        /\ \E r, o \in suppliers : r # o /\ Lower(r.name) = Lower(o.name)

\* the last order the session's import finished, and the store before it
HasLast(s) == imp[s] # None /\ imp[s].last # None
LastOrder(s) == imp[s].last.order
Before(s) == imp[s].last.before
\* the rows of an order number in a purchase_orders table
OrdersOf(rows, order_number) == {o \in rows : o.order_number = order_number}
OrderRow(rows, order_number) == CHOOSE o \in OrdersOf(rows, order_number) : TRUE
\* how many orders of the import ended with an outcome; the counters stand
\* for the finished orders except between line 383 / 390 and the commit
Count(outcomes, outcome) ==
    Cardinality({i \in 1..Len(outcomes) : outcomes[i] = outcome})
\* the line contents an incoming line list stands for in the store
RECURSIVE Incoming(_, _)
Incoming(lines, rows) ==
    IF lines = <<>> THEN <<>>
    ELSE <<[item_id |-> (CHOOSE i \in rows : i.sku = Head(lines).sku).id,
            description |-> Head(lines).description,
            ordered_quantity |-> Head(lines).ordered_quantity,
            unit_price |-> Head(lines).unit_price,
            received_quantity |-> 0]>> \o Incoming(Tail(lines), rows)
\* the header of a stored order is the incoming one, with a supplier the
\* incoming name resolves to
HeaderIs(row, order) ==
    /\ row.status = order.status
    /\ row.expected_date = order.expected_date
    /\ row.notes = order.notes
    /\ \E r \in suppliers : r.id = row.supplier_id /\ Lower(r.name) = Lower(order.supplier_name)

\* C16: the import of an order whose order_number exists locally overwrites
\* supplier, status, expected_date and notes with the incoming values (an
\* absent date or note clears), and replaces the line set: no old line
\* remains, there is one line per incoming line, each with received_quantity
\* 0; the order is counted under updated.
C16_ImportUpdates ==
    \A s \in Sessions :
        (HasLast(s) /\ OrdersOf(Before(s).purchase_orders, LastOrder(s).order_number) # {}) =>
            LET old == OrderRow(Before(s).purchase_orders, LastOrder(s).order_number)
                row == OrderRow(purchase_orders, LastOrder(s).order_number)
            IN  /\ imp[s].last.outcome = "updated"
                /\ Cardinality(OrdersOf(purchase_orders, LastOrder(s).order_number)) = 1
                /\ row.id = old.id
                /\ HeaderIs(row, LastOrder(s))
                /\ LinesOf(Before(s).purchase_order_lines, old.id) \cap purchase_order_lines = {}
                /\ Cardinality(LinesOf(purchase_order_lines, row.id)) = Len(LastOrder(s).lines)
                /\ LineContents(LinesOf(purchase_order_lines, row.id))
                       = Incoming(LastOrder(s).lines, items)
                /\ \A l \in LinesOf(purchase_order_lines, row.id) : l.received_quantity = 0
                /\ imp[s].updated >= 1
                /\ pc[s] # "imp_commit" =>
                       imp[s].updated = Count(imp[s].outcomes, "updated")

\* an import replaced an order that had a date, notes, another supplier and
\* one line with a delivery recorded, by an order without date and notes and
\* with two lines
C16_Witness ==
    \E s \in Sessions :
        /\ HasLast(s) /\ imp[s].last.outcome = "updated"
        /\ LET old == OrderRow(Before(s).purchase_orders, LastOrder(s).order_number)
               row == OrderRow(purchase_orders, LastOrder(s).order_number)
           IN  /\ old.expected_date # Null /\ old.notes # Null
               /\ row.expected_date = Null /\ row.notes = Null
               /\ old.supplier_id # row.supplier_id
               /\ \E l \in LinesOf(Before(s).purchase_order_lines, old.id) :
                      l.received_quantity > 0
               /\ Cardinality(LinesOf(Before(s).purchase_order_lines, old.id)) = 1
               /\ Cardinality(LinesOf(purchase_order_lines, row.id)) = 2

\* C17: the import of an order whose order_number does not exist locally
\* creates exactly one purchase order with the incoming status, expected_date
\* and notes and the resolved supplier, with one line per incoming line
\* carrying the incoming ordered_quantity and received_quantity 0, and counts
\* it under imported; a batch of that one order returns imported = 1,
\* updated = 0, skipped = 0.
C17_ImportCreates ==
    \A s \in Sessions :
        (HasLast(s) /\ OrdersOf(Before(s).purchase_orders, LastOrder(s).order_number) = {}) =>
            LET row == OrderRow(purchase_orders, LastOrder(s).order_number)
            IN  /\ imp[s].last.outcome = "imported"
                /\ Cardinality(OrdersOf(purchase_orders, LastOrder(s).order_number)) = 1
                /\ purchase_orders = Before(s).purchase_orders \cup {row}
                /\ HeaderIs(row, LastOrder(s))
                /\ Cardinality(LinesOf(purchase_order_lines, row.id)) = Len(LastOrder(s).lines)
                /\ LineContents(LinesOf(purchase_order_lines, row.id))
                       = Incoming(LastOrder(s).lines, items)
                /\ purchase_order_lines =
                       Before(s).purchase_order_lines \cup LinesOf(purchase_order_lines, row.id)
                /\ imp[s].imported >= 1
                /\ pc[s] # "imp_commit" =>
                       imp[s].imported = Count(imp[s].outcomes, "imported")
                /\ (Imported(s) /\ Len(imp[s].seen) = 1) =>
                       /\ imp[s].imported = 1 /\ imp[s].updated = 0
                       /\ imp[s].skipped = 0 /\ imp[s].details = 0
                       /\ result[s] = "ok"

\* a batch of one order with a new number, a supplier no row matched and two
\* lines of a sku no item had has been imported
C17_Witness ==
    \E s \in Sessions :
        /\ Imported(s) /\ Len(imp[s].seen) = 1 /\ imp[s].last.outcome = "imported"
        /\ Len(LastOrder(s).lines) = 2
        /\ ~\E i \in Before(s).items : i.sku = LastOrder(s).lines[1].sku
        /\ ~\E r \in Before(s).suppliers : Lower(r.name) = Lower(LastOrder(s).supplier_name)
        /\ imp[s].imported = 1

\* the headers of a purchase_orders table and, per order, its line contents
SameOrders(a, b) ==
    /\ a.purchase_orders = b.purchase_orders
    /\ \A o \in a.purchase_orders :
           LineContents(LinesOf(a.purchase_order_lines, o.id))
               = LineContents(LinesOf(b.purchase_order_lines, o.id))

\* C20: the import is idempotent.  Importing the batch again right after it
\* was imported leaves the same suppliers, items, order headers and line
\* contents (item, description, ordered_quantity, unit_price,
\* received_quantity 0), and the second run reports imported = 0 and every
\* order as updated.  ImportOne is what each order of the first run did.
C20_Idempotent ==
    \A s \in Sessions :
        /\ (HasLast(s) /\ imp[s].last.outcome # "skipped") =>
               ImportOne(Before(s), LastOrder(s))
                   = [tables |-> Committed, outcome |-> imp[s].last.outcome]
        /\ Imported(s) =>
               LET again == ImportAll(Committed, imp[s].seen)
               IN  /\ again.tables.suppliers = suppliers
                   /\ again.tables.items = items
                   /\ SameOrders(again.tables, Committed)
                   /\ again.imported = 0
                   /\ again.updated = Len(imp[s].seen)
                   /\ again.skipped = 0

\* an import finished that updated the local order and created another one,
\* for a supplier and an item the store did not have; importing it again
\* writes new line rows
C20_Witness ==
    \E s \in Sessions :
        /\ Imported(s) /\ imp[s].outcomes = <<"updated", "imported">>
        /\ imp[s].seen[1].supplier_name # imp[s].seen[2].supplier_name
        /\ imp[s].seen[2].lines = <<NutLine, NutLine>>
        /\ ~\E i \in Before(s).items : i.sku = "B2"
        /\ ~\E r \in Before(s).suppliers : Lower(r.name) = Lower(imp[s].seen[2].supplier_name)
        /\ ImportAll(Committed, imp[s].seen).tables.purchase_order_lines # purchase_order_lines

\* a step of session s while it imports, and such a step that ends an order
\* in a failure: the exception leaves the call, or the order is skipped
Moves(s) == imp[s] # None /\ (pc'[s] # pc[s] \/ imp'[s] # imp[s])
Fails(s) ==
    /\ Moves(s) /\ imp'[s] # None
    /\ pc'[s] = "failed" \/ imp'[s].skipped > imp[s].skipped

\* C18: when persisting one order of a batch fails, the batch is not
\* aborted: the import call does not end in an error, the failing order is
\* counted under skipped with a detail and the loop goes on to the next order.
C18_BatchNotAborted ==
    \A s \in Sessions :
        imp[s] # None =>
            /\ pc[s] # "failed"
            /\ imp[s].details = imp[s].skipped
            /\ imp[s].skipped = Count(imp[s].outcomes, "skipped")

\* C19: a failing order leaves no partial state in the committed store.
\* The step in which persisting an order fails leaves suppliers, items, order
\* headers and lines as committed, and so does closing the aborted call;
\* the session's uncommitted writes for a skipped order are dropped; and the
\* only step of an import that changes the committed store is the commit that
\* ends an order as imported or updated.
C19_NoPartialState ==
    [][\A s \in Sessions :
          /\ Fails(s) =>
                /\ Committed' = Committed
                /\ pc'[s] # "failed" => imp'[s].work = None
          /\ (imp[s] # None /\ pc[s] = "failed" /\ pc'[s] # pc[s]) =>
                Committed' = Committed
          /\ (Moves(s) /\ Committed' # Committed) =>
                /\ pc[s] = "imp_commit"
                /\ imp'[s].last.order = Head(imp[s].payload)
                /\ imp'[s].last.outcome \in {"imported", "updated"}]_vars

\* the import of an existing order was cut off at the INSERT of an item
\* another request had just created, after the order's new header was built
\* and after an earlier order of the batch was committed; the committed
\* header and lines are the old ones
C19_Witness ==
    \E s \in Sessions :
        /\ imp[s] # None /\ pc[s] = "failed" /\ result[s] = ErrIntegrity
        /\ ~imp[s].is_new
        /\ Len(imp[s].seen) >= 1
        /\ imp[s].order \notin purchase_orders
        /\ \E o \in purchase_orders : o.id = imp[s].order.id /\ LinesOf(purchase_order_lines, o.id) # {}

\* the first line of a list that names a sku
FirstOf(lines, sku) == lines[CHOOSE i \in 1..Len(lines) :
                           lines[i].sku = sku /\ \A j \in 1..(i - 1) : lines[j].sku # sku]
SkusOf(lines) == {lines[i].sku : i \in 1..Len(lines)}

\* C22: during import each incoming line is attached to the item with its
\* sku.  For an unseen sku exactly one item is created, with the name of the
\* payload line, unit_of_measure "Stk" and reorder_level 0, also when several
\* lines name that sku; an existing item is used as it is, its name, unit and
\* reorder_level unchanged; no other item is created or changed.
C22_ItemBySku ==
    \A s \in Sessions :
        (HasLast(s) /\ imp[s].last.outcome # "skipped") =>
            LET lines == LastOrder(s).lines
                row == OrderRow(purchase_orders, LastOrder(s).order_number)
                stored == LineContents(LinesOf(purchase_order_lines, row.id))
            IN  /\ Before(s).items \subseteq items
                /\ \A i \in items \ Before(s).items :
                       /\ i.sku \in SkusOf(lines)
                       /\ ~\E o \in Before(s).items : o.sku = i.sku
                       /\ i.name = FirstOf(lines, i.sku).name
                       /\ i.unit_of_measure = "Stk"
                       /\ i.reorder_level = 0
                /\ \A sku \in SkusOf(lines) :
                       Cardinality({i \in items : i.sku = sku}) = 1
                /\ Len(stored) = Len(lines)
                /\ \A k \in 1..Len(lines) :
                       \E i \in items : i.sku = lines[k].sku /\ stored[k].item_id = i.id

\* an order with two lines of a sku the store did not have was imported
\* beside an item created locally: one item "Nut" was created, the local item
\* is as it was
C22_Witness ==
    \E s \in Sessions :
        /\ HasLast(s) /\ imp[s].last.outcome = "imported"
        /\ LastOrder(s).lines = <<NutLine, NutLine>>
        /\ ~\E i \in Before(s).items : i.sku = "B2"
        /\ \E i \in items : i.sku = "B2" /\ i.name = "Nut" /\ i.unit_of_measure = "Stk"
        /\ \E i \in items : i.sku = "A1" /\ i.name = "Schraube" /\ i.reorder_level = 5

\* a supplier name with the case of its letters ignored
IgnoreCase(name) ==
    CASE name \in {"Acme", "ACME"} -> "acme"
      [] name = "Bolt" -> "bolt"
      [] name \in {"Müller", "MÜLLER"} -> "müller"

\* C21: the import resolves the supplier of an order by its name, case
\* ignored.  When a supplier of that name in any case exists, the order is
\* attached to such a supplier and no supplier is created; when none matches,
\* exactly one supplier with the incoming name is created and the order is
\* attached to it.
C21_SupplierByName ==
    \A s \in Sessions :
        (HasLast(s) /\ imp[s].last.outcome # "skipped") =>
            LET name == LastOrder(s).supplier_name
                matches == {r \in Before(s).suppliers : IgnoreCase(r.name) = IgnoreCase(name)}
                row == OrderRow(purchase_orders, LastOrder(s).order_number)
            IN  IF matches # {}
                THEN /\ suppliers = Before(s).suppliers
                     /\ row.supplier_id \in {r.id : r \in matches}
                ELSE \E r \in suppliers :
                        /\ r.name = name /\ r.id = row.supplier_id
                        /\ r \notin Before(s).suppliers
                        /\ suppliers = Before(s).suppliers \cup {r}

\* the step in which session s makes the call op, and the request's input
Calls(s, op) == call[s] = None /\ call'[s] # None /\ call'[s].op = op
\* a line input names an item the store does not have
BadItem(line_in) == line_in.item_id # NoId /\ ~\E i \in items : i.id = line_in.item_id
\* what a line input is stored as
AsStored(line_in) ==
    [item_id |-> line_in.item_id, description |-> line_in.description,
     ordered_quantity |-> line_in.ordered_quantity, unit_price |-> line_in.unit_price,
     received_quantity |-> 0]

\* C23: create_purchase_order with lines is all-or-nothing.  When a supplied
\* line names an item_id that does not exist the call fails and neither the
\* header nor any line is persisted, whichever line it is; a failing call
\* never changes the order tables; when the order number is free and every
\* line is valid, the header and all lines are persisted in the one step.
C23_AllOrNothing ==
    [][\A s \in Sessions :
          Calls(s, "create_purchase_order") =>
              LET order_in == call'[s].arg
                  bad == \E i \in 1..Len(order_in.lines) : BadItem(order_in.lines[i])
                  taken == \E o \in purchase_orders : o.order_number = order_in.order_number
              IN  /\ bad => /\ pc'[s] = "failed"
                            /\ result'[s] \in {ErrLineItem, ErrOrderNumber}
                  /\ pc'[s] = "failed" =>
                         /\ purchase_orders' = purchase_orders
                         /\ purchase_order_lines' = purchase_order_lines
                  /\ (~bad /\ ~taken) =>
                         /\ pc'[s] = "done"
                         /\ \E o \in purchase_orders' :
                               /\ o.order_number = order_in.order_number
                               /\ purchase_orders' = purchase_orders \cup {o}
                               /\ o \notin purchase_orders
                               /\ purchase_order_lines' =
                                      purchase_order_lines \cup LinesOf(purchase_order_lines', o.id)
                               /\ LinesOf(purchase_order_lines, o.id) = {}
                               /\ LineContents(LinesOf(purchase_order_lines', o.id))
                                      = [i \in 1..Len(order_in.lines) |-> AsStored(order_in.lines[i])]
      ]_vars

\* C24: update_purchase_order changes exactly the fields among supplier_id,
\* status, expected_date and notes that the update provides; every other
\* field keeps its value, and order_number, the order's lines, the other
\* orders and the suppliers are not changed.
C24_PartialUpdate ==
    [][\A s \in Sessions :
          Calls(s, "update_purchase_order") =>
              IF pc'[s] = "done"
              THEN LET order_in == call'[s].arg
                       old == CHOOSE o \in purchase_orders : o.id = call'[s].key
                       new == CHOOSE o \in purchase_orders' : o.id = call'[s].key
                   IN  /\ \A f \in UpdateFields :
                              new[f] = IF f \in DOMAIN order_in THEN order_in[f] ELSE old[f]
                       /\ new.order_number = old.order_number
                       /\ purchase_orders' \ {new} = purchase_orders \ {old}
                       /\ purchase_order_lines' = purchase_order_lines
                       /\ suppliers' = suppliers
              ELSE /\ ~\E o \in purchase_orders : o.id = call'[s].key
                   /\ UNCHANGED orders
      ]_vars

\* an update that provided the status alone was applied to an order with a
\* line whose date and notes an earlier update had set: they are still there
C24_Witness ==
    \E s \in Sessions :
        /\ pc[s] = "done" /\ call[s] # None /\ call[s].op = "update_purchase_order"
        /\ DOMAIN call[s].arg = {"status"}
        /\ \E o \in purchase_orders :
              /\ o.id = call[s].key /\ o.status = RELEASED
              /\ o.notes = "eilig" /\ o.expected_date = "2024-05-01" /\ o.supplier_id = NoId
              /\ LinesOf(purchase_order_lines, o.id) # {}

\* C25: add_purchase_order_line with an item_id that does not exist fails and
\* leaves the lines unchanged; otherwise it appends exactly one line with the
\* input's values and received_quantity 0 to the order and leaves the existing
\* lines, also what was received on them, and the headers unchanged.
C25_AddLine ==
    [][\A s \in Sessions :
          (Calls(s, "add_purchase_order_line")
              /\ \E o \in purchase_orders : o.id = call'[s].key) =>
              LET line_in == call'[s].arg
              IN  /\ purchase_orders' = purchase_orders
                  /\ IF BadItem(line_in)
                     THEN /\ pc'[s] = "failed" /\ result'[s] = ErrLineItem
                          /\ purchase_order_lines' = purchase_order_lines
                     ELSE /\ pc'[s] = "done"
                          /\ \E l \in purchase_order_lines' :
                                /\ \A o \in purchase_order_lines : o.id # l.id
                                /\ purchase_order_lines' = purchase_order_lines \cup {l}
                                /\ l.purchase_order_id = call'[s].key
                                /\ LineContents({l}) = <<AsStored(line_in)>>
      ]_vars

\* C26: set_purchase_order_line_received with a negative value fails and
\* leaves received_quantity unchanged; with a value >= 0, also one below the
\* current value, it sets received_quantity to exactly that value and changes
\* nothing else, so that a call with the value the line already has changes
\* nothing.
C26_ReceivedIsSet ==
    [][\A s \in Sessions :
          (Calls(s, "set_line_received")
              /\ \E l \in purchase_order_lines : l.id = call'[s].key) =>
              LET value == call'[s].arg
                  old == CHOOSE l \in purchase_order_lines : l.id = call'[s].key
              IN  /\ purchase_orders' = purchase_orders
                  /\ IF value < 0
                     THEN /\ pc'[s] = "failed" /\ result'[s] = ErrReceived
                          /\ purchase_order_lines' = purchase_order_lines
                     ELSE /\ pc'[s] = "done"
                          /\ purchase_order_lines' =
                                 (purchase_order_lines \ {old})
                                     \cup {[old EXCEPT !.received_quantity = value]}
                          /\ old.received_quantity = value =>
                                 purchase_order_lines' = purchase_order_lines
      ]_vars

\* the line on which 3 had been received was set to 0
C26_Witness ==
    \E s \in Sessions :
        /\ pc[s] = "done" /\ call[s] # None /\ call[s].op = "set_line_received"
        /\ call[s].key = 1 /\ call[s].arg = 0
        /\ \E l \in purchase_order_lines : l.id = 1 /\ l.received_quantity = 0 /\ l.ordered_quantity = 5

\* C27: set_purchase_order_line_received never touches the stock ledger: the
\* stock levels and the inventory transactions after the call are those
\* before it, also when the line references an item.
C27_LedgerUntouched ==
    [][\A s \in Sessions :
          Calls(s, "set_line_received") =>
              /\ stock_levels' = stock_levels
              /\ transactions' = transactions
              /\ items' = items
      ]_vars

\* 7 were recorded as received on the line of item 1, more than ordered; the
\* stock of item 1 is the 2 of its one receipt
C27_Witness ==
    \E s \in Sessions :
        /\ pc[s] = "done" /\ call[s] # None /\ call[s].op = "set_line_received"
        /\ \E l \in purchase_order_lines :
              l.id = call[s].key /\ l.item_id = 1 /\ l.received_quantity = 7
        /\ \E r \in stock_levels : r.item_id = 1 /\ r.quantity = 2
        /\ Len(transactions) = 1

\* the ways sending the snapshot fails: no connection, a timeout, an HTTP
\* error status, or a reply whose body cannot be decoded or is not JSON
TransportFailures ==
    {"ConnectError", "ReadTimeout", "HTTPStatusError", "DecodingError", "JSONDecodeError"}
SendFailed(s) ==
    /\ erp[s] # None /\ erp[s].exchange # None
    /\ "raise" \in DOMAIN erp[s].exchange
    /\ erp[s].exchange.raise \in TransportFailures

\* C28: push_inventory_snapshot never raises on an ERP transport failure.
\* Whenever sending the snapshot failed, the call has returned a result with
\* status "error", transmitted 0 and the failure's message.
C28_NeverRaises ==
    \A s \in Sessions :
        SendFailed(s) =>
            /\ pc[s] = "done"
            /\ erp[s].response = ERPExportResponse("error", 0, erp[s].exchange.raise)

\* C29: without an ERP base URL push_inventory_snapshot returns a result with
\* status "disabled" and transmitted 0, makes no network call and does not
\* raise; a base URL of slashes alone is no base URL.
C29_Disabled ==
    \A s \in Sessions :
        (call[s] # None /\ call[s].op = "push_inventory_snapshot"
            /\ call[s].key \in {Null, "/"}) =>
            /\ pc[s] = "done" /\ result[s] = "ok"
            /\ ~erp[s].posted /\ erp[s].exchange = None
            /\ erp[s].response.status = "disabled"
            /\ erp[s].response.transmitted = 0

\* an export without a base URL returned "disabled" for a store with a stock
\* level, while another export was waiting for the ERP
C29_Witness ==
    \E s, o \in Sessions :
        /\ call[s] # None /\ call[s].op = "push_inventory_snapshot" /\ call[s].key = Null
        /\ pc[s] = "done" /\ erp[s].response.status = "disabled" /\ erp[s].entries = 1
        /\ pc[o] = "push_await"


\* the two well-formed records of the feed and the orders they describe
WellFormed(raw) == raw \in {RawBolt, RawAcme}
BoltOrder ==
    [order_number |-> "PO-2", supplier_name |-> "Bolt", status |-> RELEASED,
     expected_date |-> Null, notes |-> Null,
     lines |-> <<[sku |-> "A1", name |-> "Bolt", ordered_quantity |-> 10,
                  unit_price |-> NoPrice, description |-> Null]>>]
AcmeOrder ==
    [order_number |-> "PO-1", supplier_name |-> "ACME", status |-> COMPLETED,
     expected_date |-> "2024-05-01", notes |-> "eilig",
     lines |-> <<[sku |-> "B2", name |-> "Nut", ordered_quantity |-> 4,
                  unit_price |-> 2, description |-> "M8"]>>]
WellFormedOf(feed) ==
    LET good == SelectSeq(feed, WellFormed)
    IN  [i \in 1..Len(good) |-> IF good[i] = RawBolt THEN BoltOrder ELSE AcmeOrder]
\* session s runs a sync whose GET was answered with a list of records
Fed(s) ==
    /\ call[s] # None /\ call[s].op = "sync_purchase_orders"
    /\ erp[s].exchange # None /\ "data" \in DOMAIN erp[s].exchange
    /\ erp[s].exchange.data.kind \in {"dict", "list"}

\* C30: when the feed of a sync mixes well-formed and malformed records,
\* fetch_purchase_orders returns exactly the well-formed ones, validated, in
\* feed order; the sync does not fail; the import works through exactly these
\* orders, skips none of them, and at its end each of them was imported or
\* updated and is in the store.
C30_MalformedSkipped ==
    \A s \in Sessions :
        Fed(s) =>
            LET good == WellFormedOf(erp[s].exchange.data.orders)
            IN  /\ pc[s] # "failed"
                /\ erp[s].orders = good
                /\ IF good = <<>>
                   THEN imp[s] = None /\ pc[s] = "done" /\ erp[s].response = NoOrders
                   ELSE /\ imp[s] # None
                        /\ imp[s].seen \o imp[s].payload = good
                        /\ imp[s].skipped = 0
                        /\ pc[s] = "done" =>
                               /\ imp[s].seen = good
                               /\ imp[s].imported + imp[s].updated = Len(good)
                               /\ \A i \in 1..Len(good) :
                                      /\ imp[s].outcomes[i] \in {"imported", "updated"}
                                      /\ \E o \in purchase_orders :
                                             o.order_number = good[i].order_number
C30_Witness ==
    \E s \in Sessions :
        /\ Fed(s) /\ pc[s] = "done"
        /\ erp[s].exchange.data.orders = <<RawBolt, RawBadLine, RawAcme>>
        /\ imp[s].outcomes = <<"imported", "updated">>
        /\ imp[s].imported = 1 /\ imp[s].updated = 1

\* session s has rendered the planning view
Planned(s) == call[s] # None /\ call[s].op = "show_planning" /\ pc[s] = "done"
\* what is still to come, doubled, on line number id if that line is a line
\* of the item on an order neither completed nor cancelled
OpenGap(id, item_id) ==
    IF \E l \in purchase_order_lines : \E o \in purchase_orders :
           /\ l.id = id /\ l.item_id = item_id /\ o.id = l.purchase_order_id
           /\ o.status # COMPLETED /\ o.status # CANCELLED
           /\ l.ordered_quantity > l.received_quantity
    THEN LET l == CHOOSE l \in purchase_order_lines : l.id = id
         IN  2 * (l.ordered_quantity - l.received_quantity)
    ELSE 0
RECURSIVE OpenGaps(_, _)
OpenGaps(n, item_id) ==
    IF n = 0 THEN 0 ELSE OpenGap(n, item_id) + OpenGaps(n - 1, item_id)
RECURSIVE StockAt(_, _)
StockAt(n, item_id) ==
    IF n = 0 THEN 0 ELSE StockOf(stock_levels, item_id, n) + StockAt(n - 1, item_id)

\* C31: the planning overview has one suggestion per item, with on_hand the
\* item's stock summed over all locations, on_order the summed remaining
\* quantity of its lines on open orders, coverage_gap = reorder_level -
\* on_hand, shortfall = max(0, coverage_gap - on_order), suggested_order =
\* shortfall and needs_reorder = (shortfall > 0); reorder level 20 with 5 on
\* hand and 10 on order gives gap 15, shortfall 5, suggested order 5 and
\* needs_reorder true (quantities in halves: 10, 20, 30, 10, 10).
C31_PlanningSuggestion ==
    \A s \in Sessions :
        Planned(s) =>
            /\ Cardinality(view[s].suggestions) = Cardinality(items)
            /\ \A i \in items :
                   \E e \in view[s].suggestions :
                       /\ e.item_id = i.id /\ e.reorder_level = i.reorder_level
                       /\ e.on_hand = StockAt(Cardinality(LocationNames), i.id)
                       /\ e.on_order = OpenGaps(MaxLineId, i.id)
                       /\ e.coverage_gap = 2 * i.reorder_level - e.on_hand
                       /\ e.shortfall = Max({0, e.coverage_gap - e.on_order})
                       /\ e.suggested_order = e.shortfall
                       /\ e.needs_reorder = (e.shortfall > 0)
                       /\ (e.reorder_level = 20 /\ e.on_hand = 10 /\ e.on_order = 20) =>
                              /\ e.coverage_gap = 30 /\ e.shortfall = 10
                              /\ e.suggested_order = 10 /\ e.needs_reorder
C31_Witness ==
    \E s \in Sessions :
        /\ Planned(s)
        /\ \E e \in view[s].suggestions :
               /\ e.reorder_level = 20 /\ e.on_hand = 10 /\ e.on_order = 20
               /\ e.shortfall = 10 /\ e.needs_reorder

\* the positive gaps of the lines 1..n that belong to an order, added up
RECURSIVE PositiveGaps(_, _)
PositiveGaps(n, order_id) ==
    IF n = 0 THEN 0
    ELSE PositiveGaps(n - 1, order_id) +
         (IF \E l \in purchase_order_lines :
                 l.id = n /\ l.purchase_order_id = order_id
                     /\ l.ordered_quantity > l.received_quantity
          THEN LET l == CHOOSE l \in purchase_order_lines : l.id = n
               IN  l.ordered_quantity - l.received_quantity
          ELSE 0)

\* C32: the planning view lists an order as open exactly when its status is
\* neither COMPLETED nor CANCELLED and one of its lines has ordered_quantity
\* above received_quantity; each order is listed once, and its remaining
\* quantity is the sum of the positive gaps of its lines, which a line
\* received beyond its ordered quantity does not reduce.
C32_OpenOrders ==
    \A s \in Sessions :
        Planned(s) =>
            LET open == view[s].open_orders
            IN  /\ {open[k].order : k \in 1..Len(open)} =
                       {o \in purchase_orders :
                            /\ o.status # COMPLETED /\ o.status # CANCELLED
                            /\ \E l \in purchase_order_lines :
                                   /\ l.purchase_order_id = o.id
                                   /\ l.ordered_quantity - l.received_quantity > 0}
                /\ \A j, k \in 1..Len(open) : open[j].order = open[k].order => j = k
                /\ \A k \in 1..Len(open) :
                       open[k].remaining = PositiveGaps(MaxLineId, open[k].order.id)
C32_Witness ==
    \E s \in Sessions :
        /\ Planned(s)
        /\ \E k \in 1..Len(view[s].open_orders) :
               /\ view[s].open_orders[k].order.id = 2
               /\ view[s].open_orders[k].remaining = 5
               /\ \E l \in purchase_order_lines :
                      l.purchase_order_id = 2 /\ l.received_quantity > l.ordered_quantity

\* session s obtains its database session in this step
Obtains(s) == pc[s] = "idle" /\ pc'[s] = "ready"

\* C33: from the step in which a request obtains a database session on, the
\* store holds a storage location, whatever catalog and ledger calls follow;
\* get_db on a store without locations creates "Hauptlager" and nothing
\* else, and on a store with a location it leaves the locations as they are.
C33_DefaultLocation ==
    [][/\ (\E s \in Sessions : pc'[s] # "idle") => locations' # {}
       /\ locations # {} => locations' # {}
       /\ \A s \in Sessions :
              Obtains(s) =>
                  IF locations = {}
                  THEN locations' = {[id |-> 1, name |-> "Hauptlager"]}
                  ELSE locations' = locations]_vars
C33_Witness ==
    /\ \E s \in Sessions : pc[s] = "ready"
    /\ \E l \in locations : l.name = "Hauptlager"
    /\ Cardinality(locations) = 2
    /\ transactions # <<>>

\* session s waits for the ERP to answer
Waiting(s) == pc[s] \in {"push_await", "fetch_await"}

RECURSIVE PairEffects(_, _, _)
PairEffects(n, item_id, location_id) ==
    IF n = 0 THEN 0
    ELSE PairEffects(n - 1, item_id, location_id) +
         (IF transactions[n].item_id = item_id /\ transactions[n].location_id = location_id
          THEN Effect(transactions[n]) ELSE 0)

\* C35: for every pair of item and location, after calls of
\* register_inventory_transaction that succeeded and that failed, the
\* quantity of the pair's StockLevel row is the sum of the effects of the
\* pair's recorded transactions (+quantity for a RECEIPT, -quantity for a
\* SHIPMENT, the signed quantity for an ADJUSTMENT), and a pair without a row
\* has no recorded transaction.
C35_StockIsSumOfEffects ==
    \A item_id \in ItemIds : \A location_id \in LocationIds :
        LET rows == StockRows(stock_levels, item_id, location_id)
        IN  IF rows = {}
            THEN \A n \in 1..Len(transactions) :
                     ~(transactions[n].item_id = item_id
                           /\ transactions[n].location_id = location_id)
            ELSE \A r \in rows :
                     r.quantity = PairEffects(Len(transactions), item_id, location_id)

\* the number of orders of an import that ended with the given outcome
Outcomes(st, outcome) ==
    Cardinality({i \in 1..Len(st.outcomes) : st.outcomes[i] = outcome})

\* C36: the result of import_purchase_orders_from_payload counts every order
\* of the batch once: imported + updated + skipped is the number of orders,
\* and an order whose commit failed is counted under skipped and under
\* nothing else.
C36_CountedOnce ==
    \A s \in Sessions :
        (imp[s] # None /\ pc[s] = "done") =>
            /\ imp[s].imported + imp[s].updated + imp[s].skipped = Len(imp[s].seen)
            /\ imp[s].skipped = Outcomes(imp[s], "skipped")
            /\ imp[s].imported = Outcomes(imp[s], "imported")
            /\ imp[s].updated = Outcomes(imp[s], "updated")

\* C37: a register_inventory_transaction call that fails after it created
\* the pair's StockLevel row leaves no such row behind: the committed store
\* has no row for the pair, and what the same request reads afterwards has
\* none either.
C37_NoRowAfterFailure ==
    \A s \in Sessions :
        (Failed(s) /\ stock_level[s] # None /\ stock_level[s].new) =>
            /\ StockRows(stock_levels, req[s].item_id, req[s].location_id) = {}
            /\ view[s] # None =>
                   StockRows(view[s].stock_levels, req[s].item_id, req[s].location_id) = {}

\* session s runs delete_item for the existing item item_id in this step
Deletes(s, item_id) ==
    /\ pc[s] = "ready" /\ pc'[s] \in {"done", "failed"}
    /\ call'[s] # None /\ call'[s].op = "delete_item" /\ call'[s].key = item_id
    /\ ItemExists(item_id)

\* C38: delete_item removes the item, all its StockLevel rows and all its
\* inventory transactions, and removes no purchase order and no line: the
\* lines that referenced the item remain with their item reference cleared.
C38_DeleteItemFrame ==
    [][\A s \in Sessions : \A item_id \in ItemIds :
           Deletes(s, item_id) =>
               /\ items' = {i \in items : i.id # item_id}
               /\ stock_levels' = {r \in stock_levels : r.item_id # item_id}
               /\ transactions' = SelectSeq(transactions, LAMBDA t : t.item_id # item_id)
               /\ purchase_orders' = purchase_orders
               /\ purchase_order_lines' =
                      {IF l.item_id = item_id THEN [l EXCEPT !.item_id = NoId] ELSE l :
                           l \in purchase_order_lines}]_vars

\* session s has computed the dashboard metrics
Dashboard(s) == call[s] # None /\ call[s].op = "get_inventory_overview" /\ pc[s] = "done"
\* the item's quantity summed over all locations, in halves, is at most its
\* reorder level
Low(item) == StockAt(Cardinality(LocationNames), item.id) <= 2 * item.reorder_level

\* C39: the dashboard's low-stock list holds exactly the items whose quantity
\* summed over all locations (0 without a StockLevel row) is at most their
\* reorder_level, each once and with that sum, ordered by item name; an item
\* with reorder_level 0 and no stock is listed.
C39_LowStock ==
    \A s \in Sessions :
        Dashboard(s) =>
            LET low == view[s].low_stock
            IN  /\ {low[k].item_id : k \in DOMAIN low} = {i.id : i \in {i \in items : Low(i)}}
                /\ \A j, k \in DOMAIN low : j # k => low[j].item_id # low[k].item_id
                /\ \A k \in DOMAIN low : \E i \in items :
                       /\ i.id = low[k].item_id /\ i.name = low[k].name
                       /\ low[k].quantity = StockAt(Cardinality(LocationNames), i.id)
                /\ \A j, k \in DOMAIN low :
                       j < k => NameRank(low[j].name) <= NameRank(low[k].name)
                /\ \A i \in items :
                       (i.reorder_level = 0 /\ ~\E r \in stock_levels : r.item_id = i.id) =>
                           \E k \in DOMAIN low : low[k].item_id = i.id
\* the list names "Nut", which has reorder level 0 and no stock, before
\* "Schraube", whose 3.0 and 2.0 at two locations make its reorder level 5
C39_Witness ==
    \E s \in Sessions :
        /\ Dashboard(s)
        /\ Len(view[s].low_stock) = 2
        /\ view[s].low_stock[1].item_id = 2 /\ view[s].low_stock[1].name = "Nut"
        /\ view[s].low_stock[1].quantity = 0 /\ view[s].low_stock[1].reorder_level = 0
        /\ ~\E r \in stock_levels : r.item_id = 2
        /\ view[s].low_stock[2].item_id = 1 /\ view[s].low_stock[2].quantity = 10
        /\ view[s].low_stock[2].reorder_level = 5
        /\ Cardinality({r \in stock_levels : r.item_id = 1}) = 2

\* C40: after any sequence of create_purchase_order, update_purchase_order
\* and ERP imports, the supplier reference of every purchase order is empty
\* or refers to a supplier that exists.
C40_SupplierExists ==
    \A o \in purchase_orders :
        o.supplier_id = NoId \/ \E r \in suppliers : r.id = o.supplier_id
====
